---- MODULE Spec2Model ----
(***************************************************************************)
(* Model of the agent execution core of the `dev` CLI: the sandboxed file  *)
(* tools, the git tools and query layer, provider selection, and the       *)
(* bounded tool loop that the PR / review / docs agents and the agentic    *)
(* commit-message generator run.                                           *)
(*                                                                         *)
(* Strings that the code inspects character by character (paths) are       *)
(* sequences of one-character strings; messages the code only passes on    *)
(* are TLA+ strings.                                                       *)
(***************************************************************************)
EXTENDS Integers, Sequences, FiniteSets, TLC

\* ------------------------------------------------------------------ bounds

\* Most path segments in a path argument handed to a file tool.
MaxSegs == 3
\* Most tool calls the model requests in one turn.
MaxCalls == 2

\* ------------------------------------------------------- string primitives

\* String.prototype.startsWith
StartsWith(s, p) == Len(p) <= Len(s) /\ SubSeq(s, 1, Len(p)) = p

\* String.prototype.endsWith
EndsWith(s, p) == Len(p) <= Len(s) /\ SubSeq(s, Len(s) - Len(p) + 1, Len(s)) = p

\* Index of the first occurrence of needle in s at or after position i, 0 if none.
IndexFrom(s, needle, i) ==
  LET hits == {j \in i..(Len(s) - Len(needle) + 1) : SubSeq(s, j, j + Len(needle) - 1) = needle}
  IN IF hits = {} THEN 0 ELSE CHOOSE j \in hits : \A k \in hits : j <= k

\* String.prototype.replace(needle, "") with a string needle: the first
\* occurrence only, wherever it stands.
RemoveFirst(s, needle) ==
  LET i == IndexFrom(s, needle, 1)
  IN IF i = 0 THEN s
     ELSE SubSeq(s, 1, i - 1) \o SubSeq(s, i + Len(needle), Len(s))

\* String.prototype.split(sep) for a non-empty separator.
RECURSIVE Split(_, _)
Split(s, sep) ==
  LET i == IndexFrom(s, sep, 1)
  IN IF i = 0 THEN <<s>>
     ELSE <<SubSeq(s, 1, i - 1)>> \o Split(SubSeq(s, i + Len(sep), Len(s)), sep)

SplitSlash(s) == Split(s, <<"/">>)

\* Array.prototype.join(sep)
RECURSIVE JoinWith(_, _)
JoinWith(parts, sep) ==
  IF parts = <<>> THEN <<>>
  ELSE IF Len(parts) = 1 THEN parts[1]
  ELSE parts[1] \o sep \o JoinWith(Tail(parts), sep)

\* The characters String.prototype.trim removes: space, tab, line feed.
\* NUL is not one of them.
SP == " "
TAB == "TAB"
LF == "LF"
NUL == "NUL"
IsSpace(c) == c \in {SP, TAB, LF}

RECURSIVE TrimStart(_)
TrimStart(s) == IF s # <<>> /\ IsSpace(s[1]) THEN TrimStart(Tail(s)) ELSE s

RECURSIVE TrimEnd(_)
TrimEnd(s) ==
  IF s # <<>> /\ IsSpace(s[Len(s)]) THEN TrimEnd(SubSeq(s, 1, Len(s) - 1)) ELSE s

Trim(s) == TrimEnd(TrimStart(s))

\* Segments joined by "/" behind a leading "/"; the root directory is "/".
RECURSIVE JoinAbs(_)
JoinAbs(segs) ==
  IF segs = <<>> THEN <<>>
  ELSE <<"/">> \o Head(segs) \o JoinAbs(Tail(segs))

AbsString(segs) == IF segs = <<>> THEN <<"/">> ELSE JoinAbs(segs)

Dot == <<".">>
DotDot == <<".", ".">>

\* Lexical normalisation of an absolute path's segments: "" and "." are
\* dropped, ".." removes the segment before it and stays at the root.
RECURSIVE NormalizeSegs(_, _)
NormalizeSegs(segs, acc) ==
  IF segs = <<>> THEN acc
  ELSE LET h == Head(segs)
       IN IF h = <<>> \/ h = Dot THEN NormalizeSegs(Tail(segs), acc)
          ELSE IF h = DotDot
               THEN NormalizeSegs(Tail(segs),
                      IF acc = <<>> THEN acc ELSE SubSeq(acc, 1, Len(acc) - 1))
               ELSE NormalizeSegs(Tail(segs), Append(acc, h))

IsAbsolute(p) == Len(p) > 0 /\ p[1] = "/"

\* node:path resolve(from, to) for an absolute `from`: an absolute `to`
\* replaces `from`; an empty `to` is skipped; the result is normalised and
\* carries no trailing slash.
Resolve(from, to) ==
  IF IsAbsolute(to) THEN AbsString(NormalizeSegs(SplitSlash(to), <<>>))
  ELSE AbsString(NormalizeSegs(SplitSlash(from) \o SplitSlash(to), <<>>))

\* node:path join(dir, name) for a normalised absolute dir and a plain name.
Join(dir, name) == Resolve(dir, name)

\* ------------------------------------------------------------- filesystem

\* One-character strings of a name, written out (TLC does not index strings).
N_r == <<"r">>
N_rx == <<"r", "x">>
N_src == <<"s", "r", "c">>
N_d == <<"d">>
N_dist == <<"d", "i", "s", "t">>
N_hidden == <<".", "h">>
N_node_modules == <<"n", "o", "d", "e", "_", "m", "o", "d", "u", "l", "e", "s">>
N_a_ts == <<"a", ".", "t", "s">>
N_b_ts == <<"b", ".", "t", "s">>
N_c_ts == <<"c", ".", "t", "s">>
N_big == <<"b", "i", "g">>
N_k_ts == <<"k", ".", "t", "s">>
Ext_ts == <<".", "t", "s">>

\* process.cwd(): absolute, normalised, no trailing slash.
ProcessCwd == AbsString(<<N_r>>)
\* A directory next to ProcessCwd whose path has ProcessCwd as a string prefix.
SiblingDir == AbsString(<<N_rx>>)

\* The directory tree the tools run against: each directory with its entries
\* in the order readdirSync returns them.
DirEntries ==
  [p \in {AbsString(<<>>), ProcessCwd, SiblingDir,
          AbsString(<<N_r, N_src>>), AbsString(<<N_r, N_src, N_d>>),
          AbsString(<<N_r, N_src, N_dist>>), AbsString(<<N_r, N_hidden>>),
          AbsString(<<N_r, N_node_modules>>)} |->
     CASE p = AbsString(<<>>) -> <<N_r, N_rx>>
       [] p = ProcessCwd -> <<N_hidden, N_big, N_node_modules, N_src>>
       [] p = SiblingDir -> <<N_k_ts>>
       [] p = AbsString(<<N_r, N_src>>) -> <<N_a_ts, N_d, N_dist>>
       [] p = AbsString(<<N_r, N_src, N_d>>) -> <<N_b_ts>>
       [] p = AbsString(<<N_r, N_src, N_dist>>) -> <<N_c_ts>>
       [] p = AbsString(<<N_r, N_hidden>>) -> <<N_c_ts>>
       [] p = AbsString(<<N_r, N_node_modules>>) -> <<N_c_ts>>]

Dirs == DOMAIN DirEntries

Files ==
  UNION {{Join(d, DirEntries[d][i]) : i \in 1..Len(DirEntries[d])} : d \in Dirs} \ Dirs

\* existsSync
Exists(p) == p \in Dirs \cup Files

\* content.length of each file; one file is one character longer than the
\* readFile ceiling and one is exactly as long.
FileTruncateAt == 100000
FileLength(p) ==
  IF p = Join(ProcessCwd, N_big) THEN FileTruncateAt + 1
  ELSE IF p = Join(Join(ProcessCwd, N_src), N_a_ts) THEN FileTruncateAt
  ELSE Len(p)

\* A record of one filesystem call.
Access(op, p) == [op |-> op, path |-> p]

\* What one executor call did: its return value, whether it threw instead,
\* and the filesystem calls it made.
Returned(out, access) == [threw |-> FALSE, out |-> out, access |-> access]
Threw(access) == [threw |-> TRUE, out |-> [kind |-> "exception"], access |-> access]
Text(msg) == [kind |-> "text", msg |-> msg]

\* -------------------------------------------------------------- file tools

\* createFileTools: basePath = cwd || process.cwd()
BasePath(cwd) == IF cwd # <<>> THEN cwd ELSE ProcessCwd

\* The sandbox test every path-taking tool but findFiles applies.
InsideBase(fullPath, basePath) == StartsWith(fullPath, basePath)

\* readFile.execute that truncates from the ceiling on instead of above it.
ReadFile_CutAtCeiling(basePath, path, fault) ==
  LET fullPath == Resolve(basePath, path)
  IN IF ~InsideBase(fullPath, basePath)
     THEN Returned(Text("Error: Cannot read files outside the project directory."), {})
     ELSE IF ~Exists(fullPath)
     THEN Returned(Text("Error: File not found"), {Access("existsSync", fullPath)})
     ELSE LET acc == {Access("existsSync", fullPath), Access("readFileSync", fullPath)}
          IN IF fullPath \in Dirs \/ fault
             THEN Returned(Text("Error reading file"), acc)
             ELSE IF FileLength(fullPath) >= FileTruncateAt
             THEN Returned([kind |-> "content", file |-> fullPath,
                            len |-> FileTruncateAt, marker |-> TRUE], acc)
             ELSE Returned([kind |-> "content", file |-> fullPath,
                            len |-> FileLength(fullPath), marker |-> FALSE], acc)

\* readFile.execute; `fault` is readFileSync failing on an existing file. The
\* content returned is the first `len` characters of `file`, followed by the
\* truncation marker when `marker` is set.
ReadFile(basePath, path, fault) ==
  LET fullPath == Resolve(basePath, path)
  IN IF ~InsideBase(fullPath, basePath)
     THEN Returned(Text("Error: Cannot read files outside the project directory."), {})
     ELSE IF ~Exists(fullPath)
     THEN Returned(Text("Error: File not found"), {Access("existsSync", fullPath)})
     ELSE LET acc == {Access("existsSync", fullPath), Access("readFileSync", fullPath)}
          IN IF fullPath \in Dirs \/ fault
             THEN Returned(Text("Error reading file"), acc)
             ELSE IF FileLength(fullPath) > FileTruncateAt
             THEN Returned([kind |-> "content", file |-> fullPath,
                            len |-> FileTruncateAt, marker |-> TRUE], acc)
             ELSE Returned([kind |-> "content", file |-> fullPath,
                            len |-> FileLength(fullPath), marker |-> FALSE], acc)

\* The entries listFiles keeps, in readdir order.
RECURSIVE ListFilter(_, _, _)
ListFilter(dir, names, pattern) ==
  IF names = <<>> THEN <<>>
  ELSE LET n == Head(names)
           isFile == Join(dir, n) \in Files
           rest == ListFilter(dir, Tail(names), pattern)
       IN IF StartsWith(n, Dot) THEN rest
          ELSE IF n = N_node_modules THEN rest
          ELSE IF pattern # <<>> /\ isFile /\ ~EndsWith(n, pattern) THEN rest
          ELSE <<[name |-> n, type |-> IF isFile THEN "file" ELSE "directory"]>> \o rest

\* listFiles.execute with a catch block that throws again.
ListFiles_Rethrows(basePath, path, pattern, fault) ==
  LET targetPath == IF path # <<>> THEN Resolve(basePath, path) ELSE basePath
  IN IF ~InsideBase(targetPath, basePath)
     THEN Returned(Text("Error: Cannot list files outside the project directory."), {})
     ELSE IF ~Exists(targetPath)
     THEN Returned(Text("Error: Directory not found"), {Access("existsSync", targetPath)})
     ELSE LET acc == {Access("existsSync", targetPath), Access("readdirSync", targetPath)}
          IN IF targetPath \notin Dirs \/ fault
             THEN Threw(acc)
             ELSE LET result == ListFilter(targetPath, DirEntries[targetPath], pattern)
                  IN IF Len(result) > 0
                     THEN Returned([kind |-> "entries", entries |-> result], acc)
                     ELSE Returned(Text("No files found matching criteria."), acc)

\* listFiles.execute; `fault` is readdirSync failing on an existing directory.
ListFiles(basePath, path, pattern, fault) ==
  LET targetPath == IF path # <<>> THEN Resolve(basePath, path) ELSE basePath
  IN IF ~InsideBase(targetPath, basePath)
     THEN Returned(Text("Error: Cannot list files outside the project directory."), {})
     ELSE IF ~Exists(targetPath)
     THEN Returned(Text("Error: Directory not found"), {Access("existsSync", targetPath)})
     ELSE LET acc == {Access("existsSync", targetPath), Access("readdirSync", targetPath)}
          IN IF targetPath \notin Dirs \/ fault
             THEN Returned(Text("Error listing directory"), acc)
             ELSE LET result == ListFilter(targetPath, DirEntries[targetPath], pattern)
                  IN IF Len(result) > 0
                     THEN Returned([kind |-> "entries", entries |-> result], acc)
                     ELSE Returned(Text("No files found matching criteria."), acc)

\* findFiles: maxResults || 50
DefaultMaxResults == 50
MaxOf(maxResults) ==
  IF maxResults = <<>> \/ maxResults[1] = 0 THEN DefaultMaxResults ELSE maxResults[1]

\* The names searchRecursive skips.
Excluded(name) == StartsWith(name, Dot) \/ name = N_node_modules \/ name = N_dist

\* findFiles.searchRecursive and its loop over the entries; st carries the
\* results found and the filesystem calls made so far, `unreadable` is the
\* set of directories on which readdirSync throws.
RECURSIVE SearchRecursive(_, _, _, _, _, _)
RECURSIVE SearchEntries(_, _, _, _, _, _, _)
SearchRecursive(dir, st, pattern, max, basePath, unreadable) ==
  IF Len(st.results) >= max THEN st
  ELSE LET s1 == [st EXCEPT !.access = @ \cup {Access("existsSync", dir)}]
       IN IF ~Exists(dir) THEN s1
          ELSE LET s2 == [s1 EXCEPT !.access = @ \cup {Access("readdirSync", dir)}]
               IN IF dir \notin Dirs \/ dir \in unreadable THEN s2
                  ELSE SearchEntries(dir, DirEntries[dir], s2, pattern, max,
                                     basePath, unreadable)

SearchEntries(dir, names, st, pattern, max, basePath, unreadable) ==
  IF names = <<>> THEN st
  ELSE IF Len(st.results) >= max THEN st
  ELSE LET n == Head(names)
           fullPath == Join(dir, n)
           next == IF Excluded(n) THEN st
                   ELSE IF fullPath \in Dirs
                   THEN SearchRecursive(fullPath, st, pattern, max, basePath, unreadable)
                   ELSE IF EndsWith(n, pattern)
                   THEN [st EXCEPT !.results =
                           Append(@, RemoveFirst(fullPath, basePath \o <<"/">>))]
                   ELSE st
       IN SearchEntries(dir, Tail(names), next, pattern, max, basePath, unreadable)

\* findFiles.execute
FindFiles(basePath, pattern, directory, maxResults, unreadable) ==
  LET searchDir == IF directory # <<>> THEN Resolve(basePath, directory)
                   ELSE Resolve(basePath, N_src)
      st == SearchRecursive(searchDir, [results |-> <<>>, access |-> {}], pattern,
                            MaxOf(maxResults), basePath, unreadable)
  IN IF Len(st.results) > 0
     THEN Returned([kind |-> "paths", paths |-> st.results], st.access)
     ELSE Returned(Text("No files found matching pattern"), st.access)

\* fileExists.execute; `fault` is statSync failing although existsSync held
\* (the path was removed in between).
FileExists(basePath, path, fault) ==
  LET fullPath == Resolve(basePath, path)
  IN IF ~InsideBase(fullPath, basePath)
     THEN Returned([kind |-> "exists", exists |-> FALSE,
                    error |-> "Path outside project directory"], {})
     ELSE IF ~Exists(fullPath)
     THEN Returned([kind |-> "exists", exists |-> FALSE], {Access("existsSync", fullPath)})
     ELSE LET acc == {Access("existsSync", fullPath), Access("statSync", fullPath)}
          IN IF fault THEN Threw(acc)
             ELSE Returned([kind |-> "exists", exists |-> TRUE,
                            type |-> IF fullPath \in Dirs THEN "directory" ELSE "file",
                            size |-> FileLength(fullPath)], acc)

\* node:path basename / dirname / extname, which getFileInfo applies to the
\* argument as written.
RECURSIVE StripTrailingSlashes(_)
StripTrailingSlashes(p) ==
  IF Len(p) > 1 /\ p[Len(p)] = "/" THEN StripTrailingSlashes(SubSeq(p, 1, Len(p) - 1))
  ELSE p

RECURSIVE LastIndexOf(_, _, _)
LastIndexOf(s, c, i) ==
  IF i = 0 THEN 0 ELSE IF s[i] = c THEN i ELSE LastIndexOf(s, c, i - 1)

Basename(p) ==
  LET q == StripTrailingSlashes(p)
      i == LastIndexOf(q, "/", Len(q))
  IN IF q = <<"/">> THEN <<>> ELSE SubSeq(q, i + 1, Len(q))

Dirname(p) ==
  LET q == StripTrailingSlashes(p)
      i == LastIndexOf(q, "/", Len(q))
  IN IF i = 0 THEN Dot
     ELSE IF i = 1 THEN <<"/">>
     ELSE StripTrailingSlashes(SubSeq(q, 1, i - 1))

Extname(p) ==
  LET b == Basename(p)
      i == LastIndexOf(b, ".", Len(b))
  IN IF i <= 1 \/ b = DotDot THEN <<>> ELSE SubSeq(b, i, Len(b))

\* getFileInfo.execute: string work only, no sandbox test, no filesystem call.
GetFileInfo(path) ==
  Returned([kind |-> "info", basename |-> Basename(path), dirname |-> Dirname(path),
            extension |-> Extname(path), fullPath |-> path], {})

\* ------------------------------------------------------- git query layer

\* A commit as `git log --format="%H%x00%s%x00%b%x00"` prints it, and the
\* whole output for a list of commits (one line-terminated record each).
RECURSIVE LogOutput(_)
LogOutput(commits) ==
  IF commits = <<>> THEN <<>>
  ELSE Head(commits).hash \o <<NUL>> \o Head(commits).subject \o <<NUL>>
         \o Head(commits).body \o <<NUL, LF>> \o LogOutput(Tail(commits))

\* `git diff --name-status` output for a list of (status, file) pairs.
RECURSIVE StatusOutput(_)
StatusOutput(files) ==
  IF files = <<>> THEN <<>>
  ELSE Head(files).status \o <<TAB>> \o Head(files).file \o <<LF>>
         \o StatusOutput(Tail(files))

C_one == [hash |-> <<"1", "1", "1", "1", "1", "1", "1", "1">>, subject |-> <<"f", "i", "x">>,
          body |-> <<>>]
C_two == [hash |-> <<"2", "2", "2", "2", "2", "2", "2", "2">>, subject |-> <<"a", "d", "d">>,
          body |-> <<"w", "h", "y", LF, LF, "h", "o", "w">>]

DiffTruncateAt == 50000

\* A staging area with one file more than the largest number of items any
\* tool caps a list at (findFiles' default).
Digit(d) == <<"0", "1", "2", "3", "4", "5", "6", "7", "8", "9">>[d + 1]
ManyStaged ==
  [i \in 1..(DefaultMaxResults + 1) |->
     [status |-> <<"A">>, file |-> <<"f", Digit(i \div 10), Digit(i % 10)>>]]

\* The repository states the tools are run against: not a repository; a
\* repository without commits; a working repository whose origin/HEAD is
\* set; a repository on a detached HEAD with an oversized staged diff of many files.
NoRepo ==
  [isRepo |-> FALSE, commits |-> <<>>, refs |-> {}, branch |-> "", originHead |-> "",
   branches |-> {}, diffLen |-> 0, stagedLen |-> 0, staged |-> <<>>, changed |-> <<>>,
   lastCommit |-> <<>>]
FreshRepo ==
  [isRepo |-> TRUE, commits |-> <<>>, refs |-> {}, branch |-> "main", originHead |-> "",
   branches |-> {}, diffLen |-> 0, stagedLen |-> 0, staged |-> <<>>, changed |-> <<>>,
   lastCommit |-> <<>>]
WorkRepo ==
  [isRepo |-> TRUE, commits |-> <<C_two, C_one>>, refs |-> {"main", "HEAD", "feat"},
   branch |-> "feat", originHead |-> "main", branches |-> {"main"},
   diffLen |-> DiffTruncateAt, stagedLen |-> 7,
   staged |-> <<[status |-> <<"M">>, file |-> N_a_ts]>>,
   changed |-> <<[status |-> <<"A">>, file |-> N_b_ts],
                 [status |-> <<"M">>, file |-> N_a_ts]>>,
   lastCommit |-> <<[status |-> <<"A">>, file |-> N_a_ts],
                    [status |-> <<"A">>, file |-> N_b_ts]>>]
BigRepo ==
  [isRepo |-> TRUE, commits |-> <<C_one>>, refs |-> {"master", "HEAD"},
   branch |-> "", originHead |-> "", branches |-> {"master"},
   diffLen |-> DiffTruncateAt + 1, stagedLen |-> DiffTruncateAt + 1,
   staged |-> ManyStaged,
   changed |-> <<[status |-> <<"A">>, file |-> N_big]>>,
   lastCommit |-> <<[status |-> <<"A">>, file |-> N_big]>>]
RepoStates == {NoRepo, FreshRepo, WorkRepo, BigRepo}

\* The outcome of one layer function or one exec: a value, or an exception.
Ok(val) == [threw |-> FALSE, val |-> val]
Fail == [threw |-> TRUE, val |-> <<>>]

\* exec(command, cwd): execSync throws when git exits non-zero (`fault` is
\* any other failure of the child process); the output is trimmed.
Exec(repo, works, output, fault) ==
  IF repo.isRepo /\ works /\ ~fault THEN Ok(Trim(output)) ELSE Fail

\* A diff is known by its length after trimming.
ExecDiff(repo, works, len, fault) ==
  IF repo.isRepo /\ works /\ ~fault THEN Ok(len) ELSE Fail

\* getStagedDiff: no try/catch
GetStagedDiff(repo, fault) == ExecDiff(repo, TRUE, repo.stagedLen, fault)

\* One line of --name-status output: status before the first tab, the rest
\* joined back with tabs.
ParseStatusLine(line) ==
  LET parts == Split(line, <<TAB>>)
  IN [status |-> parts[1], file |-> JoinWith(Tail(parts), <<TAB>>)]

ParseStatus(output) ==
  IF output = <<>> THEN <<>>
  ELSE LET lines == Split(output, <<LF>>)
       IN [i \in 1..Len(lines) |-> ParseStatusLine(lines[i])]

\* getStagedFiles: no try/catch
GetStagedFiles(repo, fault) ==
  LET r == Exec(repo, TRUE, StatusOutput(repo.staged), fault)
  IN IF r.threw THEN Fail ELSE Ok(ParseStatus(r.val))

\* Array.prototype.filter
RECURSIVE FilterNonBlank(_)
FilterNonBlank(entries) ==
  IF entries = <<>> THEN <<>>
  ELSE IF Trim(Head(entries)) # <<>>
       THEN <<Head(entries)>> \o FilterNonBlank(Tail(entries))
       ELSE FilterNonBlank(Tail(entries))

\* const [hash = "", subject = "", body = ""] = entry.split("\x00")
ParseCommit(entry) ==
  LET f == Split(entry, <<NUL>>)
  IN [hash |-> f[1],
      subject |-> IF Len(f) >= 2 THEN f[2] ELSE <<>>,
      body |-> Trim(IF Len(f) >= 3 THEN f[3] ELSE <<>>)]

ParseLog(output) ==
  IF output = <<>> THEN <<>>
  ELSE LET entries == FilterNonBlank(Split(output, <<NUL, LF>>))
       IN [i \in 1..Len(entries) |-> ParseCommit(entries[i])]

\* Array.prototype.slice(0, n) on a list
Take(s, n) == SubSeq(s, 1, IF n < Len(s) THEN n ELSE Len(s))

\* getRecentCommits: any failure becomes []; git log fails without commits.
GetRecentCommits(repo, count, fault) ==
  LET r == Exec(repo, repo.commits # <<>>, LogOutput(Take(repo.commits, count)), fault)
  IN IF r.threw THEN Ok(<<>>) ELSE Ok(ParseLog(r.val))

\* getCurrentBranch: no try/catch; empty on a detached HEAD.
GetCurrentBranch(repo, fault) ==
  IF repo.isRepo /\ ~fault THEN Ok(repo.branch) ELSE Fail

\* getDefaultBranch: the symbolic-ref lookup is guarded, the fallback
\* `git branch -l main master` inside the catch block is not.
GetDefaultBranch(repo, fault) ==
  IF repo.isRepo /\ repo.originHead # "" /\ ~fault THEN Ok(repo.originHead)
  ELSE IF ~repo.isRepo \/ fault THEN Fail
  ELSE IF "main" \in repo.branches THEN Ok("main")
  ELSE IF "master" \in repo.branches THEN Ok("master")
  ELSE Ok("main")

RefsOk(repo, base, head) == base \in repo.refs /\ head \in repo.refs

\* getCommitsBetween: any failure becomes []
GetCommitsBetween(repo, base, head, fault) ==
  LET r == Exec(repo, RefsOk(repo, base, head), LogOutput(repo.commits), fault)
  IN IF r.threw THEN Ok(<<>>) ELSE Ok(ParseLog(r.val))

\* getDiffBetween: any failure becomes ""
GetDiffBetween(repo, base, head, fault) ==
  LET r == ExecDiff(repo, RefsOk(repo, base, head), repo.diffLen, fault)
  IN IF r.threw THEN Ok(0) ELSE r

\* getFilesChangedBetween: any failure becomes []
GetFilesChangedBetween(repo, base, head, fault) ==
  LET r == Exec(repo, RefsOk(repo, base, head), StatusOutput(repo.changed), fault)
  IN IF r.threw THEN Ok(<<>>) ELSE Ok(ParseStatus(r.val))

\* Array.from(filesMap.values()) after filesMap.set(rec.file, rec) for each
\* record of `sets` in turn: a key keeps the position of its first set and
\* holds the value of its last.
MapValues(sets) ==
  LET firsts == {i \in 1..Len(sets) : \A j \in 1..(i - 1) : sets[j].file # sets[i].file}
      nth(k) == CHOOSE i \in firsts : Cardinality({j \in firsts : j <= i}) = k
      last(i) == CHOOSE j \in i..Len(sets) :
                   /\ sets[j].file = sets[i].file
                   /\ \A l \in (j + 1)..Len(sets) : sets[l].file # sets[i].file
  IN [k \in 1..Cardinality(firsts) |-> sets[last(nth(k))]]

\* if (file) filesMap.set(file, { status, file })
RECURSIVE NamedOnly(_)
NamedOnly(recs) ==
  IF recs = <<>> THEN <<>>
  ELSE IF Head(recs).file # <<>> THEN <<Head(recs)>> \o NamedOnly(Tail(recs))
       ELSE NamedOnly(Tail(recs))

\* getCombinedFiles with the two forEach loops in the other order: the last
\* commit's record wins.
GetCombinedFiles_CommitWins(repo, fault) ==
  LET stagedFiles == GetStagedFiles(repo, fault)
      lastCommitFiles == Exec(repo, repo.commits # <<>>, StatusOutput(repo.lastCommit), fault)
  IN IF stagedFiles.threw \/ lastCommitFiles.threw THEN Fail
     ELSE Ok(MapValues(stagedFiles.val \o NamedOnly(ParseStatus(lastCommitFiles.val))))

\* getCombinedFiles: neither getStagedFiles nor `git show HEAD` is guarded;
\* the last commit's records go into the map first, the staged ones after.
GetCombinedFiles(repo, fault) ==
  LET stagedFiles == GetStagedFiles(repo, fault)
      lastCommitFiles == Exec(repo, repo.commits # <<>>, StatusOutput(repo.lastCommit), fault)
  IN IF stagedFiles.threw \/ lastCommitFiles.threw THEN Fail
     ELSE Ok(MapValues(NamedOnly(ParseStatus(lastCommitFiles.val)) \o stagedFiles.val))

\* --------------------------------------------------------------- git tools

\* An executor that calls a layer function outside any try/catch throws when
\* the layer function throws.
ToolOf(r, out) == IF r.threw THEN Threw({}) ELSE Returned(out, {})

\* head || "HEAD"
HeadOr(head) == IF head = "" THEN "HEAD" ELSE head

\* The text of a diff tool that cuts from the ceiling on instead of above it.
DiffText_CutAtCeiling(len) ==
  IF len >= DiffTruncateAt
  THEN [kind |-> "diff", len |-> DiffTruncateAt, marker |-> TRUE]
  ELSE [kind |-> "diff", len |-> len, marker |-> FALSE]

\* The text of a diff tool: the first `len` characters of the diff, followed
\* by the "truncated due to size" suffix when `marker` is set.
DiffText(len) ==
  IF len > DiffTruncateAt
  THEN [kind |-> "diff", len |-> DiffTruncateAt, marker |-> TRUE]
  ELSE [kind |-> "diff", len |-> len, marker |-> FALSE]

\* getDiff.execute
GetDiffTool(repo, base, head, fault) ==
  LET diff == GetDiffBetween(repo, base, HeadOr(head), fault)
  IN ToolOf(diff, IF diff.val = 0 THEN Text("No differences found between the refs.")
                  ELSE DiffText(diff.val))

\* commits.map(c => ({hash: c.hash.slice(0, 7), subject, body: c.body || undefined}))
ShortCommits(commits) ==
  [i \in 1..Len(commits) |->
     [hash |-> Take(commits[i].hash, 7), subject |-> commits[i].subject,
      body |-> commits[i].body]]

\* getCommits.execute
GetCommitsTool(repo, base, head, fault) ==
  LET commits == GetCommitsBetween(repo, base, HeadOr(head), fault)
  IN ToolOf(commits, IF Len(commits.val) = 0 THEN Text("No commits found between the refs.")
                     ELSE [kind |-> "commits", commits |-> ShortCommits(commits.val)])

\* getChangedFiles.execute
GetChangedFilesTool(repo, base, head, fault) ==
  LET files == GetFilesChangedBetween(repo, base, HeadOr(head), fault)
  IN ToolOf(files, IF Len(files.val) = 0 THEN Text("No files changed between the refs.")
                   ELSE [kind |-> "files", files |-> files.val])

\* getStagedChanges.execute
GetStagedChangesTool(repo, fault) ==
  LET diff == GetStagedDiff(repo, fault)
  IN ToolOf(diff, IF diff.val = 0 THEN Text("No staged changes.") ELSE DiffText(diff.val))

\* getStagedFiles.execute
GetStagedFilesTool(repo, fault) ==
  LET files == GetStagedFiles(repo, fault)
  IN ToolOf(files, IF Len(files.val) = 0 THEN Text("No files staged.")
                   ELSE [kind |-> "files", files |-> files.val])

\* getCurrentBranch.execute
GetCurrentBranchTool(repo, fault) ==
  LET branch == GetCurrentBranch(repo, fault)
  IN ToolOf(branch, IF branch.val = "" THEN Text("Not on a branch (detached HEAD)")
                    ELSE [kind |-> "branch", name |-> branch.val])

\* getDefaultBranch.execute
GetDefaultBranchTool(repo, fault) ==
  LET branch == GetDefaultBranch(repo, fault)
  IN ToolOf(branch, [kind |-> "branch", name |-> branch.val])

\* count || 10
DefaultCommitCount == 10
CountOf(count) == IF count = <<>> \/ count[1] = 0 THEN DefaultCommitCount ELSE count[1]

\* getRecentCommits.execute
GetRecentCommitsTool(repo, count, fault) ==
  LET commits == GetRecentCommits(repo, CountOf(count), fault)
  IN ToolOf(commits, IF Len(commits.val) = 0 THEN Text("No commits found.")
                     ELSE [kind |-> "commits", commits |-> ShortCommits(commits.val)])

\* analyzeCommitStyle.execute: the style analysis is a pure summary of the
\* parsed commits and is kept as their number.
AnalyzeCommitStyleTool(repo, fault) ==
  LET commits == GetRecentCommits(repo, DefaultCommitCount, fault)
  IN ToolOf(commits, IF Len(commits.val) = 0 THEN Text("No commits to analyze.")
                     ELSE [kind |-> "style", analysed |-> Len(commits.val)])

\* getFileDiff.execute of generateCommitMessageAgentic: options.getFileDiff is
\* the caller's callback; `diffLen` is the length of what it returns and
\* `fault` is the callback throwing.
GetFileDiffTool(diffLen, fault) ==
  IF fault THEN Threw({})
  ELSE IF diffLen = 0 THEN Returned(Text("No diff found for file"), {})
  ELSE Returned([kind |-> "diff", len |-> diffLen, marker |-> FALSE], {})

\* ------------------------------------------------------ provider selection

\* getProviderConfig: the provider is options.provider || DEV_AI_PROVIDER ||
\* "anthropic"; "" stands for an option or variable that is unset or empty.
\* The provider looked up in the environment before the option.
ProviderName_EnvFirst(e) ==
  IF e.DEV_AI_PROVIDER # "" THEN e.DEV_AI_PROVIDER
  ELSE IF e.optProvider # "" THEN e.optProvider
  ELSE "anthropic"

ProviderName(e) ==
  IF e.optProvider # "" THEN e.optProvider
  ELSE IF e.DEV_AI_PROVIDER # "" THEN e.DEV_AI_PROVIDER
  ELSE "anthropic"

ApiKeyEnvVar(name) == IF name = "anthropic" THEN "ANTHROPIC_API_KEY" ELSE "OPENAI_API_KEY"

\* DEFAULT_MODELS
DEFAULT_MODELS(name) ==
  IF name = "anthropic" THEN "claude-sonnet-4-20250514" ELSE "gpt-4-turbo"

\* options.model || process.env.DEV_AI_MODEL || DEFAULT_MODELS[providerName]
ModelName(e, providerName) ==
  IF e.optModel # "" THEN e.optModel
  ELSE IF e.DEV_AI_MODEL # "" THEN e.DEV_AI_MODEL
  ELSE DEFAULT_MODELS(providerName)

GetProviderConfig(e) ==
  LET providerName == ProviderName(e)
  IN IF providerName # "anthropic" /\ providerName # "openai"
     THEN [threw |-> TRUE, error |-> "Unknown provider"]
     ELSE [threw |-> FALSE, name |-> providerName, model |-> ModelName(e, providerName),
           apiKeyEnvVar |-> ApiKeyEnvVar(providerName)]

\* validateApiKey: throws when process.env[config.apiKeyEnvVar] is falsy.
ValidateApiKey(config, e) ==
  IF e[config.apiKeyEnvVar] = "" THEN [threw |-> TRUE, error |-> "Missing API key"]
  ELSE [threw |-> FALSE]

\* createAgentModel that forgets validateApiKey.
CreateAgentModel_NoKeyCheck(e) ==
  LET providerConfig == GetProviderConfig(e)
  IN IF providerConfig.threw THEN providerConfig
     ELSE [threw |-> FALSE, provider |-> providerConfig.name]

\* createAgentModel, and the same three calls at the head of each generate*
\* function: getProviderConfig, validateApiKey, createModel.
CreateAgentModel(e) ==
  LET providerConfig == GetProviderConfig(e)
  IN IF providerConfig.threw THEN providerConfig
     ELSE IF ValidateApiKey(providerConfig, e).threw THEN ValidateApiKey(providerConfig, e)
     ELSE [threw |-> FALSE, provider |-> providerConfig.name]

\* The option and environment settings a command is started with.
Environments ==
  [optProvider : {"", "anthropic", "openai", "bogus"},
   DEV_AI_PROVIDER : {"", "openai", "bogus"},
   optModel : {"", "m-option"},
   DEV_AI_MODEL : {"", "m-env"},
   ANTHROPIC_API_KEY : {"", "ka"},
   OPENAI_API_KEY : {"", "ko"}]

\* ------------------------------------------------- tool registry and schemas

\* Argument values as the model sends them: tagged with their JSON type.
Str(v) == [t |-> "string", v |-> v]
Num(n) == [t |-> "number", n |-> n]
NoArgs == [f \in {} |-> Str(<<>>)]

Req(type) == [type |-> type, optional |-> FALSE]
Opt(type) == [type |-> type, optional |-> TRUE]

\* The schemas with `base` of the ref-taking git tools declared optional.
InputSchema_BaseOptional(tool) ==
  CASE tool \in {"readFile", "fileExists", "getFileInfo"} -> [path |-> Req("string")]
    [] tool = "listFiles" -> [path |-> Opt("string"), pattern |-> Opt("string")]
    [] tool = "findFiles" ->
         [pattern |-> Req("string"), directory |-> Opt("string"), maxResults |-> Opt("number")]
    [] tool \in {"getDiff", "getCommits", "getChangedFiles"} ->
         [base |-> Opt("string"), head |-> Opt("string")]
    [] tool = "getRecentCommits" -> [count |-> Opt("number")]
    [] tool = "getFileDiff" -> [file |-> Req("string")]
    [] OTHER -> NoArgs

\* inputSchema of each tool: z.object({...}) with required and optional fields.
InputSchema(tool) ==
  CASE tool \in {"readFile", "fileExists", "getFileInfo"} -> [path |-> Req("string")]
    [] tool = "listFiles" -> [path |-> Opt("string"), pattern |-> Opt("string")]
    [] tool = "findFiles" ->
         [pattern |-> Req("string"), directory |-> Opt("string"), maxResults |-> Opt("number")]
    [] tool \in {"getDiff", "getCommits", "getChangedFiles"} ->
         [base |-> Req("string"), head |-> Opt("string")]
    [] tool = "getRecentCommits" -> [count |-> Opt("number")]
    [] tool = "getFileDiff" -> [file |-> Req("string")]
    [] OTHER -> NoArgs

\* The tools each agent registers.
ToolsOf(agent) ==
  CASE agent = "review" -> {"getDiff", "getStagedChanges", "getStagedFiles",
                            "getChangedFiles", "readFile", "findFiles", "fileExists"}
    [] agent = "pr" -> {"getCommits", "getDiff", "getChangedFiles", "readFile",
                        "analyzeCommitStyle"}
    [] agent = "docs" -> {"readFile", "listFiles", "findFiles", "fileExists", "getFileInfo"}
    [] agent = "commit" -> {"getFileDiff"}

FileToolNames == {"readFile", "listFiles", "findFiles", "fileExists", "getFileInfo"}
GitToolNames == {"getDiff", "getCommits", "getChangedFiles", "getStagedChanges",
                 "getStagedFiles", "getCurrentBranch", "getDefaultBranch",
                 "getRecentCommits", "analyzeCommitStyle"}

\* stopWhen: stepCountIs(n) of each agent.
ReviewBudget == 15
PRBudget == 10
DocsBudget == 10
CommitBudget == 10
Budget(agent) ==
  CASE agent = "review" -> ReviewBudget
    [] agent = "pr" -> PRBudget
    [] agent = "docs" -> DocsBudget
    [] agent = "commit" -> CommitBudget

\* stepCountIs compared with > instead of reaching n.
StopWhen_OffByOne(agent, stepCount) == stepCount > Budget(agent)

\* stepCountIs that is met one step early.
StopWhen_Early(agent, stepCount) == stepCount >= Budget(agent) - 1

\* stepCountIs(n): met once the run has made n steps.
StopWhen(agent, stepCount) == stepCount >= Budget(agent)

\* Whether raw arguments pass the tool's schema: every required field is
\* there with its type, every optional field is absent or has its type.
Validates(tool, args) ==
  LET schema == InputSchema(tool)
  IN \A f \in DOMAIN schema :
       \/ f \in DOMAIN args /\ args[f].t = schema[f].type
       \/ f \notin DOMAIN args /\ schema[f].optional

\* An argument as the executor's destructuring sees it: its value, or what
\* `undefined` stands for where the executor uses it.
Arg(args, f, absent) == IF f \in DOMAIN args THEN args[f].v ELSE absent
OptNum(args, f) == IF f \in DOMAIN args THEN <<args[f].n>> ELSE <<>>

\* tool.execute(args) for validated args, in the working directory and
\* repository of the run. `fault` is the failure of the system call the
\* executor makes (a vanished path, an unreadable file, a failing child
\* process); `cbLen` is what the getFileDiff callback returns.
Execute(tool, args, cwd, repo, fault, cbLen) ==
  LET basePath == BasePath(cwd)
  IN CASE tool = "readFile" -> ReadFile(basePath, args.path.v, fault)
       [] tool = "listFiles" ->
            ListFiles(basePath, Arg(args, "path", <<>>), Arg(args, "pattern", <<>>), fault)
       [] tool = "findFiles" ->
            FindFiles(basePath, args.pattern.v, Arg(args, "directory", <<>>),
                      OptNum(args, "maxResults"),
                      IF fault THEN {Resolve(basePath, N_src)} ELSE {})
       [] tool = "fileExists" -> FileExists(basePath, args.path.v, fault)
       [] tool = "getFileInfo" -> GetFileInfo(args.path.v)
       [] tool = "getDiff" -> GetDiffTool(repo, Arg(args, "base", "undefined"), Arg(args, "head", ""), fault)
       [] tool = "getCommits" ->
            GetCommitsTool(repo, Arg(args, "base", "undefined"), Arg(args, "head", ""), fault)
       [] tool = "getChangedFiles" ->
            GetChangedFilesTool(repo, Arg(args, "base", "undefined"), Arg(args, "head", ""),
                                fault)
       [] tool = "getStagedChanges" -> GetStagedChangesTool(repo, fault)
       [] tool = "getStagedFiles" -> GetStagedFilesTool(repo, fault)
       [] tool = "getCurrentBranch" -> GetCurrentBranchTool(repo, fault)
       [] tool = "getDefaultBranch" -> GetDefaultBranchTool(repo, fault)
       [] tool = "getRecentCommits" -> GetRecentCommitsTool(repo, OptNum(args, "count"), fault)
       [] tool = "analyzeCommitStyle" -> AnalyzeCommitStyleTool(repo, fault)
       [] tool = "getFileDiff" -> GetFileDiffTool(cbLen, fault)

\* -------------------------------------------------------------------- state

VARIABLES
  env,        \* options and environment variables of the invocation
  cwd,        \* the --cwd option ("" when not given)
  repo,       \* the repository in the working directory
  agent,      \* the specialization being run, "none" before the run
  rstate,     \* the run's state
  steps,      \* the step counter of the tool loop
  modelCalls, \* model invocations made by the run
  lastText,   \* text of the latest model response
  calls,      \* tool calls requested by the latest model response, in order
  done,       \* how many of them have completed
  running,    \* indices of the calls whose executor is running
  executed,   \* indices of the calls in the order their execution began
  convLen,    \* entries in the conversation
  call,       \* the tool call handled last in this turn, and whether its executor ran
  res,        \* its outcome
  result,     \* result.text of the finished run
  returned,   \* what run*Agent handed to its caller
  outcome,    \* what the command handler did with it: exit status, error
              \* messages written, whether the result was put out
  written,    \* the files the command handler has written
  runs,       \* agent runs living side by side in one process
  cmd         \* the commit command's handler: its options, position and effects

vars == <<env, cwd, repo, agent, rstate, steps, modelCalls, lastText, calls, done,
          running, executed, convLen, call, res, result, returned, outcome,
          written, runs, cmd>>

runVars == <<agent, rstate, steps, modelCalls, lastText, calls, done, running,
             executed, convLen, result, returned, outcome, written, runs, cmd>>

NoCall == [tool |-> "none", args |-> NoArgs, invoked |-> FALSE]
NoRes == Returned(Text("none"), {})
NoText == <<>>
Pending == <<"?">>

\* The handler has not finished.
NoOutcome == [exit |-> "running", errors |-> 0, produced |-> FALSE]

\* Agents created side by side in one process: none created yet, no
\* working directory captured, no tool called.
RunIds == {1, 2}
NoRuns == [created |-> <<>>,
           cwd |-> [r \in RunIds |-> <<>>],
           call |-> [r \in RunIds |-> [tool |-> "none", args |-> NoArgs, invoked |-> FALSE]],
           res |-> [r \in RunIds |-> Returned(Text("none"), {})]]

\* The commit handler has not been entered.
NoCmd == [pc |-> "none"]

\* A catch block that writes the message and lets the handler go on.
HandlerCatch_LogOnly == [exit |-> "0", errors |-> 1, produced |-> TRUE]

\* The handler's catch block: one console.error, then process.exit(1).
HandlerCatch == [exit |-> "1", errors |-> 1, produced |-> FALSE]

\* The handler past its try block: the result is put out and the handler
\* returns.
HandlerOutput == [exit |-> "0", errors |-> 0, produced |-> TRUE]

Agents == {"review", "pr", "docs", "commit"}
CwdOptions == {<<>>, SiblingDir}

\* The state before the command has done anything.
FreshLoop ==
  /\ agent = "none"
  /\ rstate = "NotStarted"
  /\ steps = 0
  /\ modelCalls = 0
  /\ lastText = NoText
  /\ calls = <<>>
  /\ done = 0
  /\ running = {}
  /\ executed = <<>>
  /\ convLen = 0
  /\ call = NoCall
  /\ res = NoRes
  /\ result = Pending
  /\ returned = Pending
  /\ outcome = NoOutcome
  /\ written = {}

Fresh == FreshLoop /\ runs = NoRuns /\ cmd = NoCmd

\* The invocations the tool loop is followed from: the default provider or
\* one named by --provider, with and without its API key, run in the
\* process's working directory.
Invocations ==
  {e \in Environments : /\ e.optProvider # "anthropic"
                        /\ e.DEV_AI_PROVIDER = "" /\ e.OPENAI_API_KEY = ""
                        /\ e.optModel = "" /\ e.DEV_AI_MODEL = ""}

Init ==
  /\ env \in Invocations
  /\ cwd = <<>>
  /\ repo = WorkRepo
  /\ Fresh

\* ------------------------------------------------------------ the tool loop

P_sibling_k == DotDot \o <<"/">> \o N_rx \o <<"/">> \o N_k_ts

P_outside == DotDot \o <<"/">> \o DotDot

\* Texts a model response carries.
Texts == {NoText, <<"o", "k">>}

\* Tool calls a model asks for during a run: well-formed ones, and ones whose
\* arguments do not fit the tool's schema.
Requests(a) ==
  CASE a = "review" -> {[tool |-> "getStagedChanges", args |-> NoArgs],
                        [tool |-> "readFile", args |-> [path |-> Num(1)]]}
    [] a = "pr" -> {[tool |-> "readFile", args |-> [path |-> Str(P_sibling_k)]],
                    [tool |-> "getDiff", args |-> NoArgs]}
    [] a = "docs" -> {[tool |-> "listFiles", args |-> [path |-> Str(N_src)]],
                      [tool |-> "findFiles", args |-> [pattern |-> Num(1)]],
                      [tool |-> "listFiles", args |-> [path |-> Str(P_outside)]]}
    [] a = "commit" -> {[tool |-> "getFileDiff", args |-> [file |-> Str(N_a_ts)]],
                        [tool |-> "getFileDiff", args |-> NoArgs]}
    [] OTHER -> {}

CallLists(a) == UNION {[1..k -> Requests(a)] : k \in 1..MaxCalls}

\* run*Agent that substitutes a notice for an empty result.text.
RunReturn_Fallback(a, text) ==
  LET t == IF text = NoText THEN <<"n", "o", "n", "e">> ELSE text
  IN CASE a \in {"review", "docs"} -> t
       [] a = "pr" -> [body |-> t]
       [] OTHER -> Pending

\* runPRAgent that always hands back a {title, body} pair.
RunReturn_Titled(a, text) ==
  CASE a \in {"review", "docs"} -> text
    [] a = "pr" -> [title |-> NoText, body |-> text]
    [] OTHER -> Pending

\* runReviewAgent and runDocsAgent return result.text; runPRAgent without
\* includeTitle returns {body: result.text}.
RunReturn(a, text) ==
  CASE a \in {"review", "docs"} -> text
    [] a = "pr" -> [body |-> text]
    [] OTHER -> Pending

\* The options of the docs command that decide what it writes: --dry-run,
\* --write, whether --output is given, and --type.
DocsOptions == [dryRun : BOOLEAN, write : BOOLEAN, output : BOOLEAN, type : {"jsdoc", "readme"}]

\* A handler that goes on to its write step whether or not the run succeeded.
Written_Regardless(a, opts, succeeded) ==
  IF a # "docs" \/ opts.dryRun THEN {}
  ELSE IF opts.type = "jsdoc" /\ opts.write THEN {"resolvedPath"}
  ELSE IF opts.output THEN {"outputPath"}
  ELSE {}

\* The files a handler writes once its try block is over: none when it ended
\* in the catch block (process.exit(1)); none in the review and commit
\* handlers; in the docs handler the documented source file (--write with
\* jsdoc) or the --output file, and none with --dry-run.
Written(a, opts, succeeded) ==
  IF ~succeeded \/ a # "docs" \/ opts.dryRun THEN {}
  ELSE IF opts.type = "jsdoc" /\ opts.write THEN {"resolvedPath"}
  ELSE IF opts.output THEN {"outputPath"}
  ELSE {}

\* The command handler builds the model (createAgentModel, or the same checks
\* at the head of generateCommitMessageAgentic), creates the agent and calls
\* generate: the conversation starts with the instructions and the prompt and
\* the model is invoked. A failing precondition throws before any of that.
Start(a) ==
  /\ rstate = "NotStarted"
  /\ agent' = a
  /\ IF CreateAgentModel(env).threw
     THEN /\ rstate' = "PreconditionFailed"
          /\ outcome' = HandlerCatch
          /\ \E opts \in DocsOptions : written' = Written(a, opts, FALSE)
          /\ UNCHANGED <<modelCalls, convLen>>
     ELSE /\ rstate' = "AwaitingModel"
          /\ modelCalls' = 1
          /\ convLen' = 2
          /\ UNCHANGED <<outcome, written>>
  /\ UNCHANGED <<runs, cmd, env, cwd, repo, steps, lastText, calls, done, running, executed,
                 call, res, result, returned>>

\* The model answers with text and no tool request: the run ends with it.
ModelRespondsText(text) ==
  /\ rstate = "AwaitingModel"
  /\ steps' = steps + 1
  /\ lastText' = text
  /\ convLen' = convLen + 1
  /\ rstate' = "TerminalText"
  /\ result' = text
  /\ returned' = RunReturn(agent, text)
  /\ outcome' = HandlerOutput
  /\ \E opts \in DocsOptions : written' = Written(agent, opts, TRUE)
  /\ UNCHANGED <<runs, cmd, env, cwd, repo, agent, modelCalls, calls, done, running, executed,
                 call, res>>

\* The model answers with tool requests (and possibly text beside them).
ModelRequestsTools(text, reqs) ==
  /\ rstate = "AwaitingModel"
  /\ steps' = steps + 1
  /\ lastText' = text
  /\ convLen' = convLen + 1
  /\ rstate' = "ExecutingTools"
  /\ calls' = reqs
  /\ done' = 0
  /\ executed' = <<>>
  /\ UNCHANGED <<runs, cmd, env, cwd, repo, agent, modelCalls, running, call, res, result,
                 returned, outcome, written>>

\* The model call fails: the error leaves generate and run*Agent and reaches
\* the handler's catch block.
ModelFails ==
  /\ rstate = "AwaitingModel"
  /\ rstate' = "ModelFailed"
  /\ outcome' = HandlerCatch
  /\ \E opts \in DocsOptions : written' = Written(agent, opts, FALSE)
  /\ UNCHANGED <<runs, cmd, env, cwd, repo, agent, steps, modelCalls, lastText, calls, done,
                 running, executed, convLen, call, res, result, returned>>

\* The turn counts as answered once its first result is in.
TurnComplete_FirstResult(reqs, nDone, active) == nDone >= 1 /\ active = {}

\* Every call of the turn has its result in the conversation.
TurnComplete(reqs, nDone, active) == nDone = Len(reqs) /\ active = {}

\* The next call begins without waiting for the ones that are running.
Startable_NoWait(reqs, nDone, active) ==
  IF nDone + Cardinality(active) < Len(reqs) THEN {nDone + Cardinality(active) + 1} ELSE {}

\* The calls of the current turn whose handling may begin: the next one in
\* request order, once the one before it has completed.
Startable(reqs, nDone, active) ==
  IF active = {} /\ nDone < Len(reqs) THEN {nDone + 1} ELSE {}

\* What becomes of one tool call: the executor's outcome for arguments that
\* pass the schema, and otherwise an error text without the executor running.
Handle(req, fault, cbLen) ==
  IF Validates(req.tool, req.args)
  THEN [invoked |-> TRUE, res |-> Execute(req.tool, req.args, cwd, repo, fault, cbLen)]
  ELSE [invoked |-> FALSE, res |-> Returned(Text("Invalid input for tool"), {})]

ToolStart(i) ==
  /\ rstate = "ExecutingTools"
  /\ i \in Startable(calls, done, running)
  /\ running' = running \cup {i}
  /\ executed' = Append(executed, i)
  /\ UNCHANGED <<runs, cmd, env, cwd, repo, agent, rstate, steps, modelCalls, lastText, calls,
                 done, convLen, call, res, result, returned, outcome, written>>

\* The call completes and its result (a value, an error text, or the text of
\* an exception the executor threw) is appended to the conversation.
ToolEnd(i, fault, cbLen) ==
  /\ rstate = "ExecutingTools"
  /\ i \in running
  /\ LET h == Handle(calls[i], fault, cbLen)
     IN /\ call' = [tool |-> calls[i].tool, args |-> calls[i].args, invoked |-> h.invoked]
        /\ res' = h.res
  /\ running' = running \ {i}
  /\ done' = done + 1
  /\ convLen' = convLen + 1
  /\ UNCHANGED <<runs, cmd, env, cwd, repo, agent, rstate, steps, modelCalls, lastText, calls,
                 executed, result, returned, outcome, written>>

\* All calls of the turn are answered: stop if the budget is used up, and
\* invoke the model again otherwise.
StepDone ==
  /\ rstate = "ExecutingTools"
  /\ TurnComplete(calls, done, running)
  /\ IF StopWhen(agent, steps)
     THEN /\ rstate' = "BudgetExhausted"
          /\ result' = lastText
          /\ returned' = RunReturn(agent, lastText)
          /\ outcome' = HandlerOutput
          /\ \E opts \in DocsOptions : written' = Written(agent, opts, TRUE)
          /\ UNCHANGED modelCalls
     ELSE /\ rstate' = "AwaitingModel"
          /\ modelCalls' = modelCalls + 1
          /\ UNCHANGED <<result, returned, outcome, written>>
  /\ call' = NoCall
  /\ res' = NoRes
  /\ UNCHANGED <<runs, cmd, env, cwd, repo, agent, steps, lastText, calls, done, running,
                 executed, convLen>>

\* Lengths the getFileDiff callback's answer can have.
CallbackLens == {0, 7}

Next ==
  \/ \E a \in Agents : Start(a)
  \/ \E t \in Texts : ModelRespondsText(t)
  \/ \E t \in Texts : \E reqs \in CallLists(agent) : ModelRequestsTools(t, reqs)
  \/ ModelFails
  \/ \E i \in 1..MaxCalls : ToolStart(i)
  \/ \E i \in 1..MaxCalls : \E fault \in BOOLEAN : \E len \in CallbackLens :
       ToolEnd(i, fault, len)
  \/ StepDone

Spec == Init /\ [][Next]_vars

\* The steps of a run, by who takes them.
AnyStart == \E a \in Agents : Start(a)
ModelTurn ==
  \/ \E t \in Texts : ModelRespondsText(t)
  \/ \E t \in Texts : \E reqs \in CallLists(agent) : ModelRequestsTools(t, reqs)
  \/ ModelFails
AnyToolStart == \E i \in 1..MaxCalls : ToolStart(i)
AnyToolEnd ==
  \E i \in 1..MaxCalls : \E fault \in BOOLEAN : \E len \in CallbackLens :
    ToolEnd(i, fault, len)

\* An executor is running: exactly the states in which AnyToolEnd is enabled.
ToolPending == rstate = "ExecutingTools" /\ running # {}

\* The command is one sequential process that keeps running while it has a
\* step to take: the command starts its run, the backend answers every call
\* (with a response or an error), a started executor finishes (every executor
\* is synchronous), the loop goes on. The last conjunct is WF_vars(AnyToolEnd)
\* written out with ToolPending for ENABLED <<AnyToolEnd>>_vars.
FairSpec ==
  /\ Spec
  /\ WF_vars(AnyStart)
  /\ WF_vars(ModelTurn)
  /\ WF_vars(AnyToolStart)
  /\ WF_vars(StepDone)
  /\ ([]<>(~ToolPending) \/ []<><<AnyToolEnd>>_vars)

\* ------------------------------------------- the tools, called one by one

\* Arguments the model may hand to the file tools: paths of up to MaxSegs
\* segments, relative or absolute, ".", and the empty string.
Segs == {DotDot, N_r, N_rx, N_src, N_a_ts, N_big}
RelPaths == {JoinWith(q, <<"/">>) : q \in UNION {[1..k -> Segs] : k \in 1..MaxSegs}}
PathArgs == RelPaths \cup {<<"/">> \o p : p \in RelPaths} \cup {Dot, <<>>, <<"/">>}
DirArgs == {<<>>, DotDot, N_src, Dot, SiblingDir, <<"/">>, N_node_modules}
PatternArgs == {<<>>, Ext_ts, N_a_ts}
NumArgs == {<<>>, <<0>>, <<1>>, <<2>>}
RefArgs == {"", "main", "HEAD", "feat", "nope"}

\* An optional argument: left out when the value is the empty marker.
OptStr(f, v) == IF v = <<>> THEN NoArgs ELSE f :> Str(v)
OptRef(f, v) == IF v = "" THEN NoArgs ELSE f :> Str(v)
OptNumArg(f, n) == IF n = <<>> THEN NoArgs ELSE f :> Num(n[1])

\* A tool set created for some working directory and repository; no run yet.
InitTools ==
  /\ env \in {e \in Invocations : ~CreateAgentModel(e).threw}
  /\ \/ cwd = <<>> /\ repo \in RepoStates
     \/ cwd \in CwdOptions /\ repo = WorkRepo
  /\ Fresh

\* No call is under way: the caller awaits each call before the next.
Idle == call = NoCall

\* One call of a tool's execute with arguments that passed its schema.
Invoke(tool, args, fault, cbLen) ==
  /\ Validates(tool, args)
  /\ call' = [tool |-> tool, args |-> args, invoked |-> TRUE]
  /\ res' = Execute(tool, args, cwd, repo, fault, cbLen)
  /\ UNCHANGED <<env, cwd, repo, runVars>>

CallReadFile ==
  /\ Idle
  /\ \E p \in PathArgs : \E fault \in BOOLEAN : Invoke("readFile", [path |-> Str(p)], fault, 0)

CallListFiles ==
  /\ Idle
  /\ \E p \in PathArgs : \E pat \in PatternArgs : \E fault \in BOOLEAN :
       Invoke("listFiles", OptStr("path", p) @@ OptStr("pattern", pat), fault, 0)

CallFindFiles ==
  /\ Idle
  /\ \E pat \in PatternArgs \ {<<>>} : \E d \in DirArgs : \E n \in NumArgs :
       \E fault \in BOOLEAN :
         Invoke("findFiles",
                ("pattern" :> Str(pat)) @@ OptStr("directory", d) @@ OptNumArg("maxResults", n),
                fault, 0)

CallFileExists ==
  /\ Idle
  /\ \E p \in PathArgs : \E fault \in BOOLEAN : Invoke("fileExists", [path |-> Str(p)], fault, 0)

CallGetFileInfo ==
  /\ Idle
  /\ \E p \in PathArgs : Invoke("getFileInfo", [path |-> Str(p)], FALSE, 0)

\* getDiff, getCommits, getChangedFiles
CallRefTool ==
  /\ Idle
  /\ \E tool \in {"getDiff", "getCommits", "getChangedFiles"} :
       \E base \in RefArgs : \E head \in RefArgs : \E fault \in BOOLEAN :
         Invoke(tool, ("base" :> Str(base)) @@ OptRef("head", head), fault, 0)

\* getStagedChanges, getStagedFiles, getCurrentBranch, getDefaultBranch,
\* analyzeCommitStyle: no arguments.
CallRepoTool ==
  /\ Idle
  /\ \E tool \in {"getStagedChanges", "getStagedFiles", "getCurrentBranch",
                  "getDefaultBranch", "analyzeCommitStyle"} :
       \E fault \in BOOLEAN : Invoke(tool, NoArgs, fault, 0)

CallGetRecentCommits ==
  /\ Idle
  /\ \E n \in NumArgs : \E fault \in BOOLEAN :
       Invoke("getRecentCommits", OptNumArg("count", n), fault, 0)

CallGetFileDiff ==
  /\ Idle
  /\ \E len \in CallbackLens : \E fault \in BOOLEAN :
       Invoke("getFileDiff", [file |-> Str(N_a_ts)], fault, len)

\* The caller has taken the result; the tools are ready for the next call.
ResultTaken ==
  /\ call # NoCall
  /\ call' = NoCall
  /\ res' = NoRes
  /\ UNCHANGED <<env, cwd, repo, runVars>>

NextTools ==
  \/ CallFindFiles
  \/ CallReadFile
  \/ CallListFiles
  \/ CallFileExists
  \/ CallGetFileInfo
  \/ CallRefTool
  \/ CallRepoTool
  \/ CallGetRecentCommits
  \/ CallGetFileDiff
  \/ ResultTaken

SpecTools == InitTools /\ [][NextTools]_vars

\* ------------------------------------------------------------------ claims

Terminal == rstate \in {"TerminalText", "BudgetExhausted"}

\* The run was refused before its first model call, or a model call failed.
Aborted == rstate \in {"PreconditionFailed", "ModelFailed"}

\* C1: for any model strategy a run of the tool loop (review, PR, docs agents
\* and the agentic commit generator) ends: unless a precondition or a model
\* call failed, it reaches Terminal-Text or Budget-Exhausted; and at no time
\* has it made more model turns than the agent's step budget.
C1_TerminatesWithinBudget ==
  /\ [](agent \in Agents => modelCalls <= Budget(agent) /\ steps <= Budget(agent))
  /\ <>(Terminal \/ Aborted)

\* A run against a model that asked for tools on every turn has used the
\* whole budget and stopped there.
C1_Witness ==
  /\ rstate = "BudgetExhausted"
  /\ agent = "review"
  /\ modelCalls = ReviewBudget


\* C2: the step counter goes up by exactly one at each model turn and at no
\* other time, and never down; once it equals the budget no further model
\* invocation is made, also when the last response asked for tools and
\* carried no text; a run that ends by exhausting the budget has made exactly
\* `budget` model turns.
C2_StepCounter ==
  /\ [](agent \in Agents =>
          /\ (rstate = "AwaitingModel" => modelCalls = steps + 1 /\ steps < Budget(agent))
          /\ (rstate \in {"ExecutingTools", "TerminalText", "BudgetExhausted"} =>
                modelCalls = steps)
          /\ (rstate = "BudgetExhausted" => steps = Budget(agent)))
  /\ [][/\ steps' >= steps
        /\ (steps' # steps <=> rstate = "AwaitingModel" /\ rstate' \in {"ExecutingTools", "TerminalText"})
        /\ (steps' # steps => steps' = steps + 1)
        /\ (agent \in Agents /\ steps = Budget(agent) =>
              modelCalls' = modelCalls /\ rstate' \in {rstate, "BudgetExhausted"})]_vars

\* The docs agent's run has used its whole budget, and its last response
\* asked for tools without any text.
C2_Witness ==
  /\ rstate = "BudgetExhausted"
  /\ agent = "docs"
  /\ steps = DocsBudget
  /\ lastText = NoText

C8_SequentialInOrder ==
  /\ Cardinality(running) <= 1
  /\ executed = [i \in 1..Len(executed) |-> i]
  /\ running \subseteq {done + 1}
  /\ Len(executed) = done + Cardinality(running)
  /\ Len(executed) <= Len(calls)

\* The second call of a turn is running after the first has completed.
C8_Witness ==
  /\ rstate = "ExecutingTools"
  /\ done = 1
  /\ running = {2}
  /\ executed = <<1, 2>>

\* What each tool's declared schema asks of its arguments.
RequiredStrings(tool) ==
  CASE tool \in {"readFile", "fileExists", "getFileInfo"} -> {"path"}
    [] tool = "findFiles" -> {"pattern"}
    [] tool \in {"getDiff", "getCommits", "getChangedFiles"} -> {"base"}
    [] tool = "getFileDiff" -> {"file"}
    [] OTHER -> {}

ArgsFit(tool, args) ==
  /\ \A f \in RequiredStrings(tool) : f \in DOMAIN args
  /\ \A f \in DOMAIN args :
       args[f].t = IF f \in {"maxResults", "count"} THEN "number" ELSE "string"

\* C9: an executor runs only on arguments that fit its tool's schema; for
\* arguments that do not, the executor is not run, the call's result is an
\* error text, and the run goes on with the turn.
C9_OnlyValidatedArgs ==
  /\ call.invoked => ArgsFit(call.tool, call.args)
  /\ (call.tool # "none" /\ ~call.invoked) =>
       /\ ~ArgsFit(call.tool, call.args)
       /\ ~res.threw
       /\ res.out.kind = "text"
       /\ res.access = {}
       /\ rstate = "ExecutingTools"

\* getDiff was asked for without `base`: its executor did not run and the
\* turn is complete.
C9_Witness ==
  /\ call.tool = "getDiff"
  /\ ~call.invoked
  /\ rstate = "ExecutingTools"
  /\ done = Len(calls)

\* The provider chosen is not a known one, or its API key is unset or empty.
PreconditionFails ==
  \/ ProviderName(env) \notin {"anthropic", "openai"}
  \/ ProviderName(env) = "anthropic" /\ env.ANTHROPIC_API_KEY = ""
  \/ ProviderName(env) = "openai" /\ env.OPENAI_API_KEY = ""

\* C10: with an unknown provider or a missing or empty API key the command
\* fails before the loop starts: no model call is made and no tool is run at
\* any time of that run.
C10_PreconditionsFirst ==
  PreconditionFails =>
    /\ rstate \in {"NotStarted", "PreconditionFailed"}
    /\ modelCalls = 0
    /\ convLen = 0
    /\ executed = <<>>
    /\ call = NoCall

\* A run with --provider openai and no OPENAI_API_KEY was refused.
C10_Witness ==
  /\ rstate = "PreconditionFailed"
  /\ env.optProvider = "openai"
  /\ env.OPENAI_API_KEY = ""


\* The sandbox root of the tools in use, and whether a resolved path is the
\* root or lies under it (segment by segment, not by string prefix).
Root == Resolve(<<"/">>, BasePath(cwd))
Within(p, root) == p = root \/ StartsWith(p, root \o <<"/">>)

\* The denial outcome of readFile, listFiles and fileExists.
Denied(r) ==
  /\ ~r.threw
  /\ \/ /\ r.out.kind = "text"
        /\ r.out.msg \in {"Error: Cannot read files outside the project directory.",
                          "Error: Cannot list files outside the project directory."}
     \/ /\ r.out.kind = "exists"
        /\ "error" \in DOMAIN r.out

\* C3: readFile, listFiles and fileExists deny a path exactly when
\* resolve(root, path) lies outside the root: a path that resolves to the
\* root or below it is not denied, and one that resolves elsewhere, a sibling
\* directory whose name starts with the root's name included, is denied.
C3_DeniesExactlyOutside ==
  (call.invoked /\ call.tool \in {"readFile", "listFiles", "fileExists"}) =>
    (Denied(res) <=> ~Within(Resolve(BasePath(cwd), Arg(call.args, "path", <<>>)), Root))

\* C4: whatever readFile, listFiles, findFiles and fileExists are called
\* with, every existsSync, readdirSync, readFileSync and statSync they make
\* is on the sandbox root or a path under it.
C4_NoAccessOutsideRoot ==
  call.tool \in {"readFile", "listFiles", "findFiles", "fileExists"} =>
    \A a \in res.access : Within(a.path, Root)

\* C5: no executor of the file tools and git tools throws: every call
\* returns a value, whatever the input, the filesystem and the repository.
C5_NoExecutorThrows ==
  (call.invoked /\ call.tool \in FileToolNames \cup GitToolNames) => ~res.threw


\* C11: a failing model call ends the run with the error handed to the
\* caller: the failed call is not made again, no tool is executed afterwards,
\* no result is produced, and the handler writes one error message and exits
\* with status 1.
C11_ModelFailureEndsRun ==
  /\ [](rstate = "ModelFailed" =>
          /\ outcome = [exit |-> "1", errors |-> 1, produced |-> FALSE]
          /\ result = Pending
          /\ returned = Pending
          /\ running = {})
  /\ [][/\ (rstate' = "ModelFailed" /\ rstate # "ModelFailed") =>
             /\ rstate = "AwaitingModel"
             /\ modelCalls' = modelCalls /\ steps' = steps /\ executed' = executed
        /\ rstate = "ModelFailed" =>
             /\ rstate' = "ModelFailed"
             /\ modelCalls' = modelCalls /\ executed' = executed /\ call' = call
             /\ outcome' = outcome]_vars

\* The model call after a turn of tool calls failed and the handler exited.
C11_Witness ==
  /\ rstate = "ModelFailed"
  /\ steps >= 1
  /\ modelCalls = steps + 1
  /\ outcome.exit = "1"


\* C12: readFile's truncation is exact: a file read from inside the root
\* whose content is longer than 100000 characters comes back as its first
\* 100000 characters followed by the truncation marker; a file of at most
\* 100000 characters (100000 included) comes back whole, without the marker.
C12_ReadFileTruncationExact ==
  (call.tool = "readFile" /\ ~res.threw /\ res.out.kind = "content") =>
    LET L == FileLength(res.out.file)
    IN /\ L > 100000 => res.out.len = 100000 /\ res.out.marker
       /\ L <= 100000 => res.out.len = L /\ ~res.out.marker

\* A file of exactly 100000 characters was read whole.
C12_Witness ==
  /\ call.tool = "readFile"
  /\ res.out.kind = "content"
  /\ res.out.len = FileTruncateAt
  /\ ~res.out.marker

\* A longer file was read and cut.
C12_WitnessCut ==
  /\ call.tool = "readFile"
  /\ res.out.kind = "content"
  /\ res.out.len = FileTruncateAt
  /\ res.out.marker


\* The number of items a result hands to the model: the length of a list
\* result, one for any other result.
ResultItems(out) ==
  IF out.kind = "entries" THEN Len(out.entries)
  ELSE IF out.kind = "paths" THEN Len(out.paths)
  ELSE IF out.kind = "commits" THEN Len(out.commits)
  ELSE IF out.kind = "files" THEN Len(out.files)
  ELSE 1

\* C13: every tool result is bounded by a fixed ceiling that does not depend
\* on what the repository or the filesystem holds: the text results have the
\* ceilings of C12 and C14, and no list result has more items than the
\* largest number any tool caps a list at (50), however many items the
\* repository has.
C13_ResultsBounded ==
  (call # NoCall /\ ~res.threw) =>
    /\ res.out.kind \in {"content", "diff"} /\ call.tool # "getFileDiff" =>
         res.out.len <= FileTruncateAt
    /\ ResultItems(res.out) <= DefaultMaxResults


\* The diff git prints for the call: the staged diff for getStagedChanges, the
\* diff between the refs for getDiff.
DiffOf(c) == IF c.tool = "getStagedChanges" THEN repo.stagedLen ELSE repo.diffLen

\* C14: getDiff and getStagedChanges truncate exactly: a diff longer than
\* 50000 characters is returned as its first 50000 characters followed by the
\* "truncated due to size" suffix, a non-empty diff of at most 50000
\* characters (50000 included) is returned whole, without the suffix.
C14_DiffTruncationExact ==
  (call.tool \in {"getDiff", "getStagedChanges"} /\ ~res.threw /\ res.out.kind = "diff") =>
    LET L == DiffOf(call)
    IN /\ L > 0
       /\ L > 50000 => res.out.len = 50000 /\ res.out.marker
       /\ L <= 50000 => res.out.len = L /\ ~res.out.marker

\* getDiff returned a diff of exactly 50000 characters whole.
C14_Witness ==
  /\ call.tool = "getDiff"
  /\ res.out.kind = "diff"
  /\ res.out.len = DiffTruncateAt
  /\ ~res.out.marker

\* getStagedChanges cut a longer diff.
C14_WitnessCut ==
  /\ call.tool = "getStagedChanges"
  /\ res.out.kind = "diff"
  /\ res.out.len = DiffTruncateAt
  /\ res.out.marker


\* The files under dir whose name ends with the pattern, in depth-first
\* readdir order, leaving out the excluded directories and the directories in
\* `unreadable`; each path as findFiles prints it.
RECURSIVE MatchesUnder(_, _, _, _)
RECURSIVE MatchesAmong(_, _, _, _, _)
MatchesUnder(dir, pattern, basePath, unreadable) ==
  IF dir \notin Dirs \/ dir \in unreadable THEN <<>>
  ELSE MatchesAmong(dir, DirEntries[dir], pattern, basePath, unreadable)

MatchesAmong(dir, names, pattern, basePath, unreadable) ==
  IF names = <<>> THEN <<>>
  ELSE LET n == Head(names)
           p == Join(dir, n)
           here == IF p \in Dirs
                   THEN IF Excluded(n) THEN <<>>
                        ELSE MatchesUnder(p, pattern, basePath, unreadable)
                   ELSE IF EndsWith(n, pattern)
                        THEN <<RemoveFirst(p, basePath \o <<"/">>)>>
                        ELSE <<>>
       IN here \o MatchesAmong(dir, Tail(names), pattern, basePath, unreadable)

\* The paths a findFiles result lists.
PathsOf(r) == IF r.out.kind = "paths" THEN r.out.paths ELSE <<>>

\* C15: findFiles lists exactly the first min(m, k) matches in depth-first
\* order, where m is the requested maxResults (50 when none is given) and k
\* the number of matching files in the directories of the searched subtree
\* that can be read, outside excluded directories.
C15_FindFilesExactlyMin ==
  (call.tool = "findFiles" /\ ~res.threw) =>
    LET basePath == BasePath(cwd)
        directory == Arg(call.args, "directory", <<>>)
        searchDir == Resolve(basePath, IF directory # <<>> THEN directory ELSE N_src)
        m == IF "maxResults" \in DOMAIN call.args THEN call.args.maxResults.n ELSE 50
    IN \E unreadable \in {{}, {Resolve(basePath, N_src)}} :
         LET all == MatchesUnder(searchDir, call.args.pattern.v, basePath, unreadable)
             k == Len(all)
         IN PathsOf(res) = SubSeq(all, 1, IF m < k THEN m ELSE k)


\* Some directory component of the path (every component for a directory,
\* all but the last for a file) is an excluded name.
RECURSIVE AnyExcluded(_)
AnyExcluded(names) ==
  IF names = <<>> THEN FALSE
  ELSE (Head(names) # <<>> /\ Excluded(Head(names))) \/ AnyExcluded(Tail(names))

UnderExcluded(dirPath) == AnyExcluded(SplitSlash(dirPath))
InExcluded(filePath) ==
  LET c == SplitSlash(filePath) IN AnyExcluded(SubSeq(c, 1, Len(c) - 1))

\* C16: findFiles never reads the entries of an excluded directory and never
\* returns a path with an excluded directory among its components, also when
\* the excluded directory is the directory argument itself.
C16_NeverEntersExcluded ==
  (call.tool = "findFiles" /\ ~res.threw) =>
    /\ \A a \in res.access : a.op = "readdirSync" => ~UnderExcluded(a.path)
    /\ \A i \in 1..Len(PathsOf(res)) : ~InExcluded(PathsOf(res)[i])


\* ------------------------------------------------- commit-record parsing

\* The commit bodies git is made to print: empty, one line, with an embedded
\* newline, a tab or a pipe, with leading or trailing whitespace.
MaxCommits == 2
Bodies ==
  {<<>>, <<"x">>, <<"x", LF, LF, "y">>, <<"x", TAB, "y">>, <<"x", "|", "y">>,
   <<SP, "x">>, <<"x", LF>>, <<LF, "x">>}

\* The i-th commit of a history, newest first.
CommitAt(i, body) ==
  [hash |-> <<Digit(i), "a", "b", "c", "d", "e", "f", "0">>,
   subject |-> <<"f", "i", "x", SP, Digit(i)>>, body |-> body]

Histories ==
  UNION {{[i \in 1..n |-> CommitAt(i, b[i])] : b \in [1..n -> Bodies]} : n \in 0..MaxCommits}

\* getRecentCommits(count, cwd) and getCommitsBetween(base, head, cwd) called
\* on a repository with one of the histories; the records they return are
\* kept as the result.
InitCommits ==
  /\ env \in {e \in Invocations : ~CreateAgentModel(e).threw}
  /\ cwd = <<>>
  /\ repo \in {[WorkRepo EXCEPT !.commits = h] : h \in Histories}
  /\ Fresh

Records(tool, args, commits) ==
  /\ call' = [tool |-> tool, args |-> args, invoked |-> TRUE]
  /\ res' = Returned([kind |-> "records", commits |-> commits.val], {})
  /\ UNCHANGED <<env, cwd, repo, runVars>>

LayerGetRecentCommits ==
  /\ Idle
  /\ \E count \in 1..MaxCommits :
       Records("git.getRecentCommits", [count |-> Num(count)],
               GetRecentCommits(repo, count, FALSE))

LayerGetCommitsBetween ==
  /\ Idle
  /\ \E base \in RefArgs \ {""} : \E head \in RefArgs \ {""} :
       Records("git.getCommitsBetween", [base |-> Str(base), head |-> Str(head)],
               GetCommitsBetween(repo, base, head, FALSE))

NextCommits == LayerGetRecentCommits \/ LayerGetCommitsBetween \/ ResultTaken

SpecCommits == InitCommits /\ [][NextCommits]_vars

\* The commits git prints for the call.
Printed(c) ==
  IF c.tool = "git.getRecentCommits" THEN Take(repo.commits, c.args.count.n)
  ELSE IF RefsOk(repo, c.args.base.v, c.args.head.v) THEN repo.commits
  ELSE <<>>

\* C17: parsing round-trips: the records getRecentCommits and
\* getCommitsBetween return are the commits git printed, as many, in the same
\* order, with hash, subject and body each equal to the original, whatever
\* newlines, tabs, pipes and leading or trailing whitespace the bodies hold.
C17_ParsingRoundTrips ==
  call.tool \in {"git.getRecentCommits", "git.getCommitsBetween"} =>
    res.out.commits = Printed(call)


\* ------------------------------------------------- output sanitization

\* Character classes of the regular expressions: \w and the /i flag.
LowerCase == <<"a", "b", "c", "d", "e", "f", "g", "h", "i", "j", "k", "l", "m", "n", "o", "p", "q", "r", "s", "t", "u", "v", "w", "x", "y", "z">>
UpperCase == <<"A", "B", "C", "D", "E", "F", "G", "H", "I", "J", "K", "L", "M", "N", "O", "P", "Q", "R", "S", "T", "U", "V", "W", "X", "Y", "Z">>
Digits == {"0", "1", "2", "3", "4", "5", "6", "7", "8", "9"}
IsWord(c) ==
  \/ \E i \in 1..26 : c = LowerCase[i] \/ c = UpperCase[i]
  \/ c \in Digits \cup {"_"}
ToLower(c) ==
  IF \E i \in 1..26 : c = UpperCase[i]
  THEN LowerCase[CHOOSE i \in 1..26 : c = UpperCase[i]]
  ELSE c

\* The literal lit (in lower case) stands at position p of s, whatever the case.
MatchCI(s, p, lit) ==
  /\ p >= 1
  /\ p + Len(lit) - 1 <= Len(s)
  /\ \A k \in 1..Len(lit) : ToLower(s[p + k - 1]) = lit[k]

\* An optional literal, and a required alternative (0 when none matches), at
\* position p; the position behind it.
Maybe(s, p, lit) == IF MatchCI(s, p, lit) THEN p + Len(lit) ELSE p
Need(s, p, lits) ==
  IF \E l \in lits : MatchCI(s, p, l)
  THEN p + Len(CHOOSE l \in lits : MatchCI(s, p, l))
  ELSE 0

RECURSIVE MaybeAll(_, _, _)
MaybeAll(s, p, lits) ==
  IF lits = <<>> THEN p ELSE MaybeAll(s, Maybe(s, p, Head(lits)), Tail(lits))

RECURSIVE SkipSpace(_, _)
SkipSpace(s, p) == IF p <= Len(s) /\ IsSpace(s[p]) THEN SkipSpace(s, p + 1) ELSE p

RECURSIVE SkipWord(_, _)
SkipWord(s, p) == IF p <= Len(s) /\ IsWord(s[p]) THEN SkipWord(s, p + 1) ELSE p

\* The backtick, and the code fence.
BT == "BT"
Fence == <<BT, BT, BT>>
IsFence(s, p) == p >= 1 /\ p + 2 <= Len(s) /\ SubSeq(s, p, p + 2) = Fence

\* .replace(/^```[\w]*\n?/gm, ""): at the start of each line, the fence, the
\* word characters behind it and, when the line ends there, its line feed.
RECURSIVE StripFenceOpenLines(_)
StripFenceOpenLines(lines) ==
  IF lines = <<>> THEN <<>>
  ELSE LET line == Head(lines)
           last == Len(lines) = 1
           rest == StripFenceOpenLines(Tail(lines))
       IN IF IsFence(line, 1)
          THEN LET kept == SubSeq(line, SkipWord(line, 4), Len(line))
               IN IF kept = <<>> \/ last THEN kept \o rest ELSE kept \o <<LF>> \o rest
          ELSE IF last THEN line ELSE line \o <<LF>> \o rest

StripFenceOpen(s) == StripFenceOpenLines(Split(s, <<LF>>))

\* .replace(/```$/gm, ""): a fence at the end of a line.
StripFenceCloseLine(line) ==
  IF IsFence(line, Len(line) - 2) THEN SubSeq(line, 1, Len(line) - 3) ELSE line

StripFenceClose(s) ==
  LET lines == Split(s, <<LF>>)
  IN JoinWith([i \in 1..Len(lines) |-> StripFenceCloseLine(lines[i])], <<LF>>)

\* The preamble pattern, replaced by "" at the start of the text, whatever the
\* case: Here, Here's, Heres, The or Your, a space, an optional "the ", the
\* optional words, one of the nouns, an optional colon and the whitespace
\* behind it. Every optional group is followed by a literal it
\* shares no first letter with, so the match is found without backtracking.
StripPreamble(s, optional, nouns) ==
  LET p1 == IF MatchCI(s, 1, <<"h", "e", "r", "e">>)
            THEN Maybe(s, Maybe(s, 5, <<"'">>), <<"s">>)
            ELSE Need(s, 1, {<<"t", "h", "e">>, <<"y", "o", "u", "r">>})
      p2 == IF p1 = 0 THEN 0 ELSE Need(s, p1, {<<SP>>})
      p3 == IF p2 = 0 THEN 0 ELSE Need(s, MaybeAll(s, Maybe(s, p2, <<"t", "h", "e", SP>>), optional), nouns)
      p4 == IF p3 = 0 THEN 0 ELSE SkipSpace(s, Maybe(s, p3, <<":">>))
  IN IF p4 = 0 THEN s ELSE SubSeq(s, p4, Len(s))

ExtractCommitMessage(aiResponse) ==
  Trim(StripPreamble(StripFenceClose(StripFenceOpen(aiResponse)),
                     <<<<"c", "o", "m", "m", "i", "t", SP>>>>, {<<"m", "e", "s", "s", "a", "g", "e">>}))

\* extractPRContent's cleaning of the text, before the title is split off.
PRText(aiResponse) ==
  Trim(StripPreamble(StripFenceClose(StripFenceOpen(aiResponse)),
                     <<<<"p", "r", SP>>, <<"p", "u", "l", "l", SP, "r", "e", "q", "u", "e", "s", "t", SP>>, <<"t", "i", "t", "l", "e", SP, "a", "n", "d", SP>>>>,
                     {<<"d", "e", "s", "c", "r", "i", "p", "t", "i", "o", "n">>, <<"b", "o", "d", "y">>}))

ExtractChangelogContent(aiResponse) ==
  Trim(StripPreamble(StripFenceClose(StripFenceOpen(aiResponse)),
                     <<>>, {<<"c", "h", "a", "n", "g", "e", "l", "o", "g">>, <<"e", "n", "t", "r", "y">>}))

ExtractReviewContent(aiResponse) ==
  Trim(StripPreamble(StripFenceClose(StripFenceOpen(aiResponse)),
                     <<<<"c", "o", "d", "e", SP>>>>, {<<"r", "e", "v", "i", "e", "w">>}))

ExtractExplainContent(aiResponse) ==
  Trim(StripPreamble(StripFenceClose(StripFenceOpen(aiResponse)),
                     <<>>, {<<"e", "x", "p", "l", "a", "n", "a", "t", "i", "o", "n">>}))

ExtractDocsContent(aiResponse) ==
  Trim(StripPreamble(aiResponse, <<<<"g", "e", "n", "e", "r", "a", "t", "e", "d", SP>>>>,
                     {<<"d", "o", "c", "u", "m", "e", "n", "t", "a", "t", "i", "o", "n">>, <<"d", "o", "c", "s">>, <<"j", "s", "d", "o", "c">>, <<"c", "o", "m", "m", "e", "n", "t", "s">>}))

\* The title is lines[0] without one leading "#" and the whitespace behind
\* it, trimmed; the body is lines.slice(1).join("\n").trim().
SplitTitle(text) ==
  LET lines == Split(text, <<LF>>)
      first == lines[1]
  IN [title |-> Trim(IF first # <<>> /\ first[1] = "#"
                     THEN SubSeq(first, SkipSpace(first, 2), Len(first))
                     ELSE first),
      body |-> Trim(JoinWith(Tail(lines), <<LF>>))]

ExtractPRContent(aiResponse, includeTitle) ==
  IF includeTitle THEN SplitTitle(PRText(aiResponse)) ELSE [body |-> PRText(aiResponse)]

\* runPRAgent's return value for context.includeTitle
RunPRAgentReturn(text, includeTitle) ==
  IF includeTitle THEN SplitTitle(text) ELSE [body |-> text]

COMMIT_TYPES ==
  {<<"f", "e", "a", "t">>,
   <<"f", "i", "x">>,
   <<"d", "o", "c", "s">>,
   <<"s", "t", "y", "l", "e">>,
   <<"r", "e", "f", "a", "c", "t", "o", "r">>,
   <<"p", "e", "r", "f">>,
   <<"t", "e", "s", "t">>,
   <<"b", "u", "i", "l", "d">>,
   <<"c", "i">>,
   <<"c", "h", "o", "r", "e">>,
   <<"r", "e", "v", "e", "r", "t">>}

\* COMMIT_TYPE_PATTERN.test(line): a type, an optional scope in parentheses,
\* an optional "!", a colon and at least one character behind it; the scope
\* runs to the first ")" and holds at least one character.
TypePatternFrom(line, p) ==
  LET close == IndexFrom(line, <<")">>, p + 1)
      p2 == IF p <= Len(line) /\ line[p] = "(" /\ close > p + 1 THEN close + 1 ELSE p
      p3 == Maybe(line, p2, <<"!">>)
  IN p3 <= Len(line) /\ line[p3] = ":" /\ Len(line) >= p3 + 1

COMMIT_TYPE_PATTERN(line) ==
  \E t \in COMMIT_TYPES : MatchCI(line, 1, t) /\ TypePatternFrom(line, Len(t) + 1)

IMPERATIVE_VERBS ==
  {<<"a", "d", "d">>,
   <<"r", "e", "m", "o", "v", "e">>,
   <<"u", "p", "d", "a", "t", "e">>,
   <<"f", "i", "x">>,
   <<"c", "h", "a", "n", "g", "e">>,
   <<"c", "r", "e", "a", "t", "e">>,
   <<"d", "e", "l", "e", "t", "e">>,
   <<"i", "m", "p", "l", "e", "m", "e", "n", "t">>,
   <<"i", "m", "p", "r", "o", "v", "e">>,
   <<"r", "e", "f", "a", "c", "t", "o", "r">>,
   <<"m", "o", "v", "e">>,
   <<"r", "e", "n", "a", "m", "e">>,
   <<"m", "e", "r", "g", "e">>,
   <<"r", "e", "l", "e", "a", "s", "e">>,
   <<"b", "u", "m", "p">>,
   <<"i", "n", "i", "t", "i", "a", "l">>}

\* IMPERATIVE_PATTERN.test(line): a verb, whitespace and at least one
\* character behind it.
IMPERATIVE_PATTERN(line) ==
  \E v \in IMPERATIVE_VERBS :
    /\ MatchCI(line, 1, v)
    /\ Len(line) >= Len(v) + 2
    /\ IsSpace(line[Len(v) + 1])

SubjectCeiling == 100

\* The tail of extractCommitMessageAgentic's return statements.
FromLine(lines, i) ==
  Trim(StripFenceClose(StripFenceOpen(JoinWith(SubSeq(lines, i, Len(lines)), <<LF>>))))

\* extractCommitMessageAgentic that holds the conventional pattern to the
\* length ceiling as well.
RECURSIVE ScanLines_CeilingOnBoth(_, _, _)
ScanLines_CeilingOnBoth(aiResponse, lines, i) ==
  IF i > Len(lines) THEN ExtractCommitMessage(aiResponse)
  ELSE LET line == Trim(lines[i])
       IN IF line = <<>> THEN ScanLines_CeilingOnBoth(aiResponse, lines, i + 1)
          ELSE IF COMMIT_TYPE_PATTERN(line) /\ Len(line) <= SubjectCeiling
          THEN FromLine(lines, i)
          ELSE IF IMPERATIVE_PATTERN(line) /\ Len(line) <= SubjectCeiling
          THEN FromLine(lines, i)
          ELSE ScanLines_CeilingOnBoth(aiResponse, lines, i + 1)

\* extractCommitMessageAgentic's loop over the lines, from line i on.
RECURSIVE ScanLines(_, _, _)
ScanLines(aiResponse, lines, i) ==
  IF i > Len(lines) THEN ExtractCommitMessage(aiResponse)
  ELSE LET line == Trim(lines[i])
       IN IF line = <<>> THEN ScanLines(aiResponse, lines, i + 1)
          ELSE IF COMMIT_TYPE_PATTERN(line) THEN FromLine(lines, i)
          ELSE IF IMPERATIVE_PATTERN(line) /\ Len(line) <= SubjectCeiling
          THEN FromLine(lines, i)
          ELSE ScanLines(aiResponse, lines, i + 1)

ExtractCommitMessageAgentic(aiResponse) ==
  ScanLines(aiResponse, Split(aiResponse, <<LF>>), 1)


\* The texts a model hands back, built from a few pieces: a code fence, a
\* line feed, a space, a heading marker, a line of chat with a blank line
\* behind it, a preamble, a conventional subject, an imperative subject, and
\* an imperative and a conventional line of 101 characters.
MaxPieces == 3
Chat == <<"o", "k", ":", LF, LF>>
LongLine == <<"A", "d", "d", SP>> \o [i \in 1..(SubjectCeiling - 3) |-> "y"]
LongType == <<"f", "i", "x", ":", SP>> \o [i \in 1..(SubjectCeiling - 4) |-> "y"]
Pieces ==
  {Fence, <<LF>>, <<SP>>, <<"#">>, Chat,
   <<"T", "h", "e", SP, "m", "e", "s", "s", "a", "g", "e", ":", SP>>,
   <<"f", "e", "a", "t", ":", SP, "y">>, <<"B", "u", "m", "p", SP, "y">>,
   LongLine, LongType}

RECURSIVE Flatten(_)
Flatten(ps) == IF ps = <<>> THEN <<>> ELSE Head(ps) \o Flatten(Tail(ps))

Responses == {Flatten(ps) : ps \in UNION {[1..n -> Pieces] : n \in 0..MaxPieces}}

\* The sanitizers applied to the text of a finished generation; lastText is
\* the text the model produced.
InitExtract ==
  /\ env \in {e \in Invocations : ~CreateAgentModel(e).threw}
  /\ cwd = <<>>
  /\ repo = WorkRepo
  /\ agent = "none"
  /\ rstate = "NotStarted"
  /\ steps = 0
  /\ modelCalls = 0
  /\ lastText \in Responses
  /\ calls = <<>>
  /\ done = 0
  /\ running = {}
  /\ executed = <<>>
  /\ convLen = 0
  /\ call = NoCall
  /\ res = NoRes
  /\ result = Pending
  /\ returned = Pending
  /\ outcome = NoOutcome
  /\ written = {}
  /\ runs = NoRuns
  /\ cmd = NoCmd

\* One sanitizer call: what it returns for the text, and what it returns
\* when given its own output.
Extracted(f, once, twice) ==
  /\ Idle
  /\ call' = [tool |-> f, args |-> <<>>, invoked |-> TRUE]
  /\ res' = Returned([kind |-> "extracted", once |-> once, twice |-> twice], {})
  /\ UNCHANGED <<env, cwd, repo, runVars>>

CallExtractCommitMessage ==
  LET once == ExtractCommitMessage(lastText)
  IN Extracted("extractCommitMessage", once, ExtractCommitMessage(once))

CallExtractPRContent ==
  LET once == ExtractPRContent(lastText, FALSE).body
  IN Extracted("extractPRContent", once, ExtractPRContent(once, FALSE).body)

CallExtractChangelogContent ==
  LET once == ExtractChangelogContent(lastText)
  IN Extracted("extractChangelogContent", once, ExtractChangelogContent(once))

CallExtractReviewContent ==
  LET once == ExtractReviewContent(lastText)
  IN Extracted("extractReviewContent", once, ExtractReviewContent(once))

CallExtractExplainContent ==
  LET once == ExtractExplainContent(lastText)
  IN Extracted("extractExplainContent", once, ExtractExplainContent(once))

CallExtractDocsContent ==
  LET once == ExtractDocsContent(lastText)
  IN Extracted("extractDocsContent", once, ExtractDocsContent(once))

CallExtractCommitMessageAgentic ==
  LET once == ExtractCommitMessageAgentic(lastText)
  IN Extracted("extractCommitMessageAgentic", once, ExtractCommitMessageAgentic(once))

CallExtractPRContentTitled ==
  LET once == ExtractPRContent(lastText, TRUE)
  IN Extracted("extractPRContent(includeTitle)", once, once)

CallRunPRAgentTitled ==
  LET once == RunPRAgentReturn(lastText, TRUE)
  IN Extracted("runPRAgent(includeTitle)", once, once)

NextExtract ==
  \/ CallExtractCommitMessage
  \/ CallExtractPRContent
  \/ CallExtractChangelogContent
  \/ CallExtractReviewContent
  \/ CallExtractExplainContent
  \/ CallExtractDocsContent
  \/ CallExtractCommitMessageAgentic
  \/ CallExtractPRContentTitled
  \/ CallRunPRAgentTitled
  \/ ResultTaken

SpecExtract == InitExtract /\ [][NextExtract]_vars

Sanitizers ==
  {"extractCommitMessage", "extractPRContent", "extractChangelogContent",
   "extractReviewContent", "extractExplainContent", "extractDocsContent"}

\* C18: sanitization is idempotent: each sanitizer, given its own output,
\* returns it unchanged.
C18_SanitizeIdempotent ==
  call.tool \in Sanitizers => res.out.twice = res.out.once


\* A line that can start a commit message: not blank, and either a
\* conventional subject or an imperative subject of at most 100 characters.
IsAnchor(rawLine) ==
  LET line == Trim(rawLine)
  IN /\ line # <<>>
     /\ COMMIT_TYPE_PATTERN(line) \/ (IMPERATIVE_PATTERN(line) /\ Len(line) <= 100)

\* C19: when some line of the text is an anchor, extractCommitMessageAgentic
\* returns the text from the first anchor line to the end, without the code
\* fences and trimmed; nothing of the lines before the anchor is kept.
C19_AnchorLineOnward ==
  call.tool = "extractCommitMessageAgentic" =>
    LET lines == Split(lastText, <<LF>>)
    IN (\E i \in 1..Len(lines) : IsAnchor(lines[i])) =>
         LET a == CHOOSE i \in 1..Len(lines) :
                    IsAnchor(lines[i]) /\ \A j \in 1..(i - 1) : ~IsAnchor(lines[j])
             kept == JoinWith(SubSeq(lines, a, Len(lines)), <<LF>>)
         IN res.out.once = Trim(StripFenceClose(StripFenceOpen(kept)))

\* A line of chat and a blank line stand before the conventional subject,
\* and the message returned starts at the subject.
C19_Witness ==
  /\ call.tool = "extractCommitMessageAgentic"
  /\ lastText = Chat \o <<"f", "e", "a", "t", ":", SP, "y">> \o <<LF>>
  /\ res.out.once = <<"f", "e", "a", "t", ":", SP, "y">>

\* A conventional subject of more than 100 characters is the anchor.
C19_WitnessLong ==
  /\ call.tool = "extractCommitMessageAgentic"
  /\ lastText = Chat \o LongType
  /\ res.out.once = LongType

\* An imperative line of more than 100 characters is no anchor.
C19_WitnessSkipped ==
  /\ call.tool = "extractCommitMessageAgentic"
  /\ lastText = LongLine \o <<LF>> \o <<"B", "u", "m", "p", SP, "y">>
  /\ res.out.once = <<"B", "u", "m", "p", SP, "y">>

\* The title and body the text is to be split into: the first line that is
\* not blank, once the code fences are taken out, without a leading "#" and
\* the whitespace behind it; and the rest behind that line, trimmed.
TitleAndBody(text) ==
  LET lines == Split(StripFenceClose(StripFenceOpen(text)), <<LF>>)
      filled == {i \in 1..Len(lines) : Trim(lines[i]) # <<>>}
  IN IF filled = {} THEN [title |-> <<>>, body |-> <<>>]
     ELSE LET f == CHOOSE i \in filled : \A j \in filled : i <= j
              t == Trim(lines[f])
          IN [title |-> Trim(IF t[1] = "#" THEN SubSeq(t, 2, Len(t)) ELSE t),
              body |-> Trim(JoinWith(SubSeq(lines, f + 1, Len(lines)), <<LF>>))]

\* C20: with includeTitle, extractPRContent and runPRAgent return as title
\* the first non-empty line of the model's text without its heading marker,
\* and as body the rest behind that line, trimmed, also when the text starts
\* with blank lines or a code fence.
C20_TitleIsFirstNonEmptyLine ==
  call.tool \in {"extractPRContent(includeTitle)", "runPRAgent(includeTitle)"} =>
    res.out.once = TitleAndBody(lastText)


\* ------------------------------------------------- the repository query layer

\* The query functions of lib/git called directly, against every repository
\* state and against working repositories whose staged, changed and
\* last-commit file lists are drawn from StatusLists.
MaxFiles == 2

A_sp == <<"a", SP>>
FileRecords ==
  {[status |-> <<"M">>, file |-> N_a_ts],
   [status |-> <<"D">>, file |-> N_a_ts],
   [status |-> <<"A">>, file |-> N_b_ts],
   [status |-> <<"R", "1", "0", "0">>, file |-> N_a_ts \o <<TAB>> \o N_b_ts],
   [status |-> <<"A">>, file |-> A_sp]}

StatusLists == UNION {[1..n -> FileRecords] : n \in 0..MaxFiles}

LayerRepos ==
  RepoStates \cup
  {[WorkRepo EXCEPT !.staged = s, !.changed = l, !.lastCommit = l] :
     s \in StatusLists, l \in StatusLists}

InitLayer ==
  /\ env \in {e \in Invocations : ~CreateAgentModel(e).threw}
  /\ cwd = <<>>
  /\ repo \in LayerRepos
  /\ Fresh

\* One call of a query function: what it returned, or that it threw.
Query(tool, args, kind, r) ==
  /\ call' = [tool |-> tool, args |-> args, invoked |-> TRUE]
  /\ res' = IF r.threw THEN Threw({}) ELSE Returned([kind |-> kind, val |-> r.val], {})
  /\ UNCHANGED <<env, cwd, repo, runVars>>

LayerRefs == {"main", "HEAD", "gone"}

LayerGetStagedDiff ==
  /\ Idle
  /\ Query("git.getStagedDiff", NoArgs, "diff", GetStagedDiff(repo, FALSE))

LayerGetStagedFiles ==
  /\ Idle
  /\ Query("git.getStagedFiles", NoArgs, "files", GetStagedFiles(repo, FALSE))

LayerGetCurrentBranch ==
  /\ Idle
  /\ Query("git.getCurrentBranch", NoArgs, "branch", GetCurrentBranch(repo, FALSE))

LayerGetDefaultBranch ==
  /\ Idle
  /\ Query("git.getDefaultBranch", NoArgs, "branch", GetDefaultBranch(repo, FALSE))

LayerGetDiffBetween ==
  /\ Idle
  /\ \E base \in LayerRefs : \E head \in LayerRefs :
       Query("git.getDiffBetween", [base |-> Str(base), head |-> Str(head)], "diff",
             GetDiffBetween(repo, base, head, FALSE))

LayerGetFilesChangedBetween ==
  /\ Idle
  /\ \E base \in LayerRefs : \E head \in LayerRefs :
       Query("git.getFilesChangedBetween", [base |-> Str(base), head |-> Str(head)], "files",
             GetFilesChangedBetween(repo, base, head, FALSE))

LayerGetCombinedFiles ==
  /\ Idle
  /\ Query("git.getCombinedFiles", NoArgs, "files", GetCombinedFiles(repo, FALSE))

NextLayer ==
  \/ LayerGetStagedDiff
  \/ LayerGetStagedFiles
  \/ LayerGetRecentCommits
  \/ LayerGetCommitsBetween
  \/ LayerGetDiffBetween
  \/ LayerGetFilesChangedBetween
  \/ LayerGetCurrentBranch
  \/ LayerGetDefaultBranch
  \/ LayerGetCombinedFiles
  \/ ResultTaken

SpecLayer == InitLayer /\ [][NextLayer]_vars

\* The eight query functions the error-handling rule names.
QueryFunctions ==
  {"git.getStagedDiff", "git.getStagedFiles", "git.getRecentCommits",
   "git.getCommitsBetween", "git.getDiffBetween", "git.getFilesChangedBetween",
   "git.getCurrentBranch", "git.getDefaultBranch"}

\* The repository state makes the query inapplicable: the directory is not a
\* repository, a ref the query names does not exist, or there is no commit
\* to list.
Inapplicable(c) ==
  \/ ~repo.isRepo
  \/ /\ c.tool \in {"git.getCommitsBetween", "git.getDiffBetween", "git.getFilesChangedBetween"}
     /\ ~RefsOk(repo, c.args.base.v, c.args.head.v)
  \/ c.tool = "git.getRecentCommits" /\ repo.commits = <<>>

\* The empty string (a diff of length 0, a branch name "") or the empty list.
EmptyResult(out) ==
  CASE out.kind = "records" -> out.commits = <<>>
    [] out.kind = "files" -> out.val = <<>>
    [] out.kind = "diff" -> out.val = 0
    [] out.kind = "branch" -> out.val = ""
    [] OTHER -> FALSE

\* C21: every query function of the repository query layer returns an empty
\* result instead of throwing when the repository state makes the query
\* inapplicable.
C21_QueriesDegradeToEmpty ==
  (call.invoked /\ call.tool \in QueryFunctions /\ Inapplicable(call))
    => (~res.threw /\ EmptyResult(res.out))


\* The records git printed for a file-status query, one per output line.
Listed(c) ==
  IF c.tool = "git.getStagedFiles" THEN repo.staged
  ELSE IF RefsOk(repo, c.args.base.v, c.args.head.v) THEN repo.changed
  ELSE <<>>

\* C28: file-status parsing (getStagedFiles, getFilesChangedBetween) yields
\* one record per line of the plumbing output, in the order of the output,
\* with status the text before the first tab and file everything after it.
C28_StatusParsingExact ==
  (call.invoked /\ call.tool \in {"git.getStagedFiles", "git.getFilesChangedBetween"}
     /\ ~res.threw)
    => res.out.val = Listed(call)

\* The two lists getCombinedFiles merges, as it holds them: the records of
\* getStagedFiles, and the named records of the `git show HEAD` lines.
StagedList == GetStagedFiles(repo, FALSE).val
LastCommitList ==
  LET recs == ParseStatus(Trim(StatusOutput(repo.lastCommit)))
  IN {recs[i] : i \in {j \in 1..Len(recs) : recs[j].file # <<>>}}
PathsIn(recs) == {r.file : r \in recs}
Range(s) == {s[i] : i \in 1..Len(s)}

RunSucceeded == rstate \in {"TerminalText", "BudgetExhausted"}

C22_WitnessFailed ==
  /\ agent = "docs"
  /\ rstate = "ModelFailed"
  /\ steps > 0
  /\ written = {}


\* ------------------------------------------------- two runs in one process

\* Two agents created in one process with different working directories;
\* their tool calls interleave in any order. Each working directory holds its
\* own repository.
RunCwds == {<<>>, SiblingDir, AbsString(<<N_r, N_src>>)}
RunPaths == {N_a_ts, N_k_ts, Dot, JoinWith(<<N_src, N_a_ts>>, <<"/">>),
             JoinWith(<<DotDot, N_rx, N_k_ts>>, <<"/">>)}
RepoAt(c) == IF c = SiblingDir THEN BigRepo ELSE WorkRepo

Created(rs) == {rs.created[i] : i \in 1..Len(rs.created)}

\* Tools that read a root shared by the process: the one of the agent
\* created last.
ToolRoot_LastCreated(rs, r) == rs.cwd[rs.created[Len(rs.created)]]

\* createFileTools(cwd) and createGitTools(cwd): the tools of a run close
\* over the cwd given when the agent was created.
ToolRoot(rs, r) == rs.cwd[r]

\* create*Agent(model, cwd)
CreateRun(r, c) ==
  /\ r \notin Created(runs)
  /\ \A o \in Created(runs) : runs.cwd[o] # c
  /\ runs' = [runs EXCEPT !.created = Append(@, r), !.cwd[r] = c]
  /\ UNCHANGED <<env, cwd, repo, agent, rstate, steps, modelCalls, lastText, calls, done,
                 running, executed, convLen, call, res, result, returned, outcome,
                 written, cmd>>

\* One tool call of run r.
RunCallsTool(r, tool, args) ==
  /\ LET root == ToolRoot(runs, r)
     IN runs' = [runs EXCEPT
                   !.call[r] = [tool |-> tool, args |-> args, invoked |-> TRUE],
                   !.res[r] = Execute(tool, args, root, RepoAt(root), FALSE, 0)]
  /\ UNCHANGED <<env, cwd, repo, agent, rstate, steps, modelCalls, lastText, calls, done,
                 running, executed, convLen, call, res, result, returned, outcome,
                 written, cmd>>

RunCallsFileTool(r) ==
  /\ r \in Created(runs)
  /\ \E tool \in {"readFile", "fileExists", "listFiles"} : \E p \in RunPaths :
       RunCallsTool(r, tool, [path |-> Str(p)])

RunCallsGitTool(r) ==
  /\ r \in Created(runs)
  /\ \E tool \in {"getCurrentBranch", "getStagedFiles"} : RunCallsTool(r, tool, NoArgs)

InitRuns ==
  /\ env \in {e \in Invocations : ~CreateAgentModel(e).threw}
  /\ cwd = <<>>
  /\ repo = WorkRepo
  /\ Fresh

NextRuns ==
  \/ \E r \in RunIds : \E c \in RunCwds : CreateRun(r, c)
  \/ \E r \in RunIds : RunCallsFileTool(r)
  \/ \E r \in RunIds : RunCallsGitTool(r)

SpecRuns == InitRuns /\ [][NextRuns]_vars

\* What a call returns in a process that holds no other run: the tools
\* created for `c` alone, called with the same arguments.
Alone(c, cl) == Execute(cl.tool, cl.args, c, RepoAt(c), FALSE, 0)

CommitOptions ==
  [all : BOOLEAN, noEdit : BOOLEAN, dryRun : BOOLEAN, modified : BOOLEAN]

CmdStart(o) ==
  [pc |-> "start", all |-> o.all, noEdit |-> o.noEdit, dryRun |-> o.dryRun,
   modified |-> o.modified, stagedSeen |-> 0, generated |-> Pending, genFailed |-> FALSE,
   editorOpened |-> 0, editorFile |-> <<>>, editorStatus |-> -1, finalMessage |-> Pending,
   commitCalls |-> 0, printed |-> Pending, exit |-> "running"]

\* process.exit(status), a return (status 0), or an exception that leaves
\* the handler ("threw").
Finish(c, exit) == [c EXCEPT !.pc = "done", !.exit = exit]

Msg_fix == <<"f", "i", "x", ":", SP, "y">>
Msg_comment == <<"#", "y">>
GeneratedMessages == {<<>>, Msg_fix, Msg_comment}

\* formatMessageForEditor: the message, an empty line and five comment
\* lines (the instruction lines shortened to their first word).
FormatMessageForEditor(message, branch) ==
  JoinWith(<<message, <<>>, <<"#", SP, "P", "l", "e", "a", "s", "e">>,
             <<"#", SP, "w", "i", "t", "h">>, <<"#">>,
             <<"#", SP, "O", "n", SP, "b", "r", "a", "n", "c", "h", SP, branch>>, <<"#">>>>,
           <<LF>>)

\* parseEditedMessage: the lines that do not start with "#", joined and trimmed
ParseEditedMessage(content) ==
  Trim(JoinWith(SelectSeq(Split(content, <<LF>>), LAMBDA l : ~StartsWith(l, <<"#">>)),
                <<LF>>))

\* An editor result that counts only the exit status as an abort.
EditorResult_StatusOnly(status, content) ==
  IF status # 0 THEN [message |-> <<>>, aborted |-> TRUE]
  ELSE [message |-> ParseEditedMessage(content), aborted |-> FALSE]

\* openInEditor after the editor has exited: aborted on a non-zero status,
\* and on a message that is empty once the comment lines are removed.
EditorResult(status, content) ==
  IF status # 0 THEN [message |-> <<>>, aborted |-> TRUE]
  ELSE LET finalMessage == ParseEditedMessage(content)
       IN [message |-> finalMessage, aborted |-> Len(finalMessage) = 0]

\* What the file holds when the editor exits: left as it was, emptied, a
\* line added on top, or everything but a comment deleted.
Edits == {"kept", "emptied", "added", "comment"}
EditorSaves(file, edit) ==
  CASE edit = "kept" -> file
    [] edit = "emptied" -> <<>>
    [] edit = "added" -> <<"n", "e", "w", LF>> \o file
    [] OTHER -> <<"#", "x">>

\* A handler that looks at --no-edit before --dry-run.
AfterGeneration_NoEditFirst(c) ==
  IF c.noEdit THEN "commit" ELSE IF c.dryRun THEN "print" ELSE "edit"

\* The handler's branch after generation: --dry-run prints and returns;
\* otherwise --no-edit commits the generated message; otherwise the editor.
AfterGeneration(c) ==
  IF c.dryRun THEN "print" ELSE IF c.noEdit THEN "commit" ELSE "edit"

\* The record of the commit git creates.
C_new(message) ==
  [hash |-> <<"3", "3", "3", "3", "3", "3", "3", "3">>, subject |-> message, body |-> <<>>]

\* try { createCommit(finalMessage, cwd) ... } catch { process.exit(1) }:
\* `git commit -F -` refuses an empty message and fails when a hook does.
CreateCommit(c, message, hookFails) ==
  /\ IF message = <<>> \/ hookFails
     THEN /\ cmd' = Finish([c EXCEPT !.commitCalls = @ + 1, !.finalMessage = message], "1")
          /\ UNCHANGED repo
     ELSE /\ cmd' = Finish([c EXCEPT !.commitCalls = @ + 1, !.finalMessage = message], "0")
          /\ repo' = [repo EXCEPT !.commits = <<C_new(message)>> \o @, !.staged = <<>>,
                                  !.refs = @ \cup {"HEAD"}]

\* stageAllChanges: `git add -u` stages the modifications of tracked files.
StageAllChanges(r, modified) ==
  IF modified THEN [r EXCEPT !.staged = Append(@, [status |-> <<"M">>, file |-> N_b_ts])]
  ELSE r

\* The handler up to the await: the repository check, --all, the staged
\* files, the diff and the recent commits. `fault` names the unguarded git
\* command that fails, if one does.
CommitEnter(fault) ==
  /\ cmd.pc = "start"
  /\ IF ~repo.isRepo
     THEN cmd' = Finish(cmd, "1") /\ UNCHANGED repo
     ELSE IF cmd.all /\ fault = "add"
     THEN cmd' = Finish(cmd, "threw") /\ UNCHANGED repo
     ELSE LET staged == IF cmd.all THEN StageAllChanges(repo, cmd.modified) ELSE repo
              stagedFiles == GetStagedFiles(staged, fault = "status")
              diff == GetStagedDiff(staged, fault = "diff")
          IN /\ repo' = staged
             /\ cmd' = IF stagedFiles.threw THEN Finish(cmd, "threw")
                       ELSE IF Len(stagedFiles.val) = 0 THEN Finish(cmd, "1")
                       ELSE IF diff.threw
                       THEN Finish([cmd EXCEPT !.stagedSeen = Len(stagedFiles.val)], "threw")
                       ELSE [cmd EXCEPT !.pc = "generating",
                                        !.stagedSeen = Len(stagedFiles.val)]
  /\ UNCHANGED <<env, cwd, agent, rstate, steps, modelCalls, lastText, calls, done,
                 running, executed, convLen, call, res, result, returned, outcome,
                 written, runs>>

\* generateCommitMessage rejects (a missing key, a backend error): the
\* catch block writes the error and exits with status 1.
GenerationFails ==
  /\ cmd.pc = "generating"
  /\ cmd' = Finish([cmd EXCEPT !.genFailed = TRUE], "1")
  /\ UNCHANGED <<env, cwd, repo, agent, rstate, steps, modelCalls, lastText, calls, done,
                 running, executed, convLen, call, res, result, returned, outcome,
                 written, runs>>

\* generateCommitMessage resolves with a message; the handler prints it,
\* commits it, or opens the editor on it.
GenerationSucceeds(message, fault, hookFails) ==
  /\ cmd.pc = "generating"
  /\ LET c == [cmd EXCEPT !.generated = message]
         branch == GetCurrentBranch(repo, fault)
     IN CASE AfterGeneration(c) = "print" ->
               cmd' = Finish([c EXCEPT !.printed = message], "0") /\ UNCHANGED repo
          [] AfterGeneration(c) = "commit" -> CreateCommit(c, message, hookFails)
          [] OTHER ->
               /\ cmd' = IF branch.threw THEN Finish(c, "threw")
                         ELSE [c EXCEPT !.pc = "editing", !.editorOpened = @ + 1,
                                        !.editorFile = FormatMessageForEditor(message, branch.val)]
               /\ UNCHANGED repo
  /\ UNCHANGED <<env, cwd, agent, rstate, steps, modelCalls, lastText, calls, done,
                 running, executed, convLen, call, res, result, returned, outcome,
                 written, runs>>

\* The editor exits: an abort ends the handler with status 0, anything else
\* is committed.
EditorExits(status, edit, hookFails) ==
  /\ cmd.pc = "editing"
  /\ LET content == EditorSaves(cmd.editorFile, edit)
         editorResult == EditorResult(status, content)
         c == [cmd EXCEPT !.editorStatus = status, !.editorFile = content]
     IN IF editorResult.aborted
        THEN cmd' = Finish([c EXCEPT !.finalMessage = editorResult.message], "0")
             /\ UNCHANGED repo
        ELSE CreateCommit(c, editorResult.message, hookFails)
  /\ UNCHANGED <<env, cwd, agent, rstate, steps, modelCalls, lastText, calls, done,
                 running, executed, convLen, call, res, result, returned, outcome,
                 written, runs>>

InitCommit ==
  /\ env \in {e \in Invocations : ~CreateAgentModel(e).threw}
  /\ cwd = <<>>
  /\ repo \in {NoRepo, FreshRepo, WorkRepo}
  /\ FreshLoop
  /\ runs = NoRuns
  /\ cmd \in {CmdStart(o) : o \in CommitOptions}

NextCommit ==
  \/ \E fault \in {"none", "add", "status", "diff"} : CommitEnter(fault)
  \/ GenerationFails
  \/ \E m \in GeneratedMessages : \E fault \in BOOLEAN : \E hookFails \in BOOLEAN :
       GenerationSucceeds(m, fault, hookFails)
  \/ \E status \in {0, 1} : \E edit \in Edits : \E hookFails \in BOOLEAN :
       EditorExits(status, edit, hookFails)

SpecCommit == InitCommit /\ [][NextCommit]_vars

\* C24: with --dry-run the commit handler never calls createCommit and
\* never opens the editor, on any path; no commit is added to the
\* repository, and a run that gets its message only prints it.
C24_DryRunNeverCommits ==
  /\ [](cmd.dryRun =>
          /\ cmd.commitCalls = 0
          /\ cmd.editorOpened = 0
          /\ (cmd.generated # Pending => cmd.printed = cmd.generated /\ cmd.exit = "0"))
  /\ [][cmd.dryRun => repo'.commits = repo.commits]_vars

\* A dry run with --no-edit whose message was generated: printed, handler
\* returned, nothing committed.
C24_Witness ==
  /\ cmd.dryRun /\ cmd.noEdit
  /\ cmd.pc = "done"
  /\ cmd.printed = Msg_fix
  /\ cmd.commitCalls = 0


\* The repository holds no commit made by the handler.
NoNewCommit == \A i \in 1..Len(repo.commits) : repo.commits[i].hash # C_new(<<>>).hash

\* C29: createCommit is called at most once per invocation and only when the
\* directory is a repository, a file is staged, generation succeeded,
\* --dry-run is not set, and --no-edit is set or the editor exited with
\* status 0 leaving a non-empty message once comment lines are removed; an
\* editor abort ends the handler with status 0 and a failed generation with
\* status 1, both without a commit.
C29_CommitOnlyWhenConfirmed ==
  /\ [][cmd'.commitCalls # cmd.commitCalls =>
          /\ cmd.commitCalls = 0 /\ cmd'.commitCalls = 1
          /\ repo.isRepo
          /\ cmd.stagedSeen > 0 /\ repo.staged # <<>>
          /\ cmd'.generated # Pending /\ ~cmd.genFailed
          /\ ~cmd.dryRun
          /\ \/ cmd.noEdit /\ cmd'.editorOpened = 0
             \/ /\ cmd'.editorOpened = 1
                /\ cmd'.editorStatus = 0
                /\ ParseEditedMessage(cmd'.editorFile) # <<>>
                /\ cmd'.finalMessage = ParseEditedMessage(cmd'.editorFile)]_vars
  /\ []((cmd.pc = "done" /\ cmd.editorOpened = 1 /\ cmd.commitCalls = 0)
          => cmd.exit = "0" /\ NoNewCommit)
  /\ [](cmd.genFailed => cmd.exit = "1" /\ cmd.commitCalls = 0 /\ NoNewCommit)

\* The editor added a line on top of a generated message and exited with
\* status 0: the edited message was committed, once.
C29_Witness ==
  /\ cmd.pc = "done" /\ cmd.exit = "0"
  /\ cmd.editorOpened = 1 /\ cmd.editorStatus = 0
  /\ cmd.commitCalls = 1
  /\ cmd.finalMessage = <<"n", "e", "w", LF>> \o Msg_fix
  /\ Head(repo.commits).subject = cmd.finalMessage

\* The editor exited with status 0 on a file holding only comment lines: the
\* handler ended with status 0 and nothing was committed.
C29_WitnessAbort ==
  /\ cmd.pc = "done" /\ cmd.exit = "0"
  /\ cmd.editorStatus = 0
  /\ cmd.generated = Msg_comment
  /\ cmd.commitCalls = 0


\* ------------------------------------------------ provider and model selection

\* getProviderConfig and createAgentModel called under every combination of
\* the --provider and --model options and the four environment variables.
InitConfig ==
  /\ env \in Environments
  /\ cwd = <<>>
  /\ repo = WorkRepo
  /\ Fresh

CallGetProviderConfig ==
  /\ Idle
  /\ LET config == GetProviderConfig(env)
     IN /\ call' = [tool |-> "getProviderConfig", args |-> NoArgs, invoked |-> TRUE]
        /\ res' = IF config.threw THEN Threw({})
                  ELSE Returned([kind |-> "config", name |-> config.name,
                                 model |-> config.model,
                                 apiKeyEnvVar |-> config.apiKeyEnvVar], {})
  /\ UNCHANGED <<env, cwd, repo, runVars>>

CallCreateAgentModel ==
  /\ Idle
  /\ LET model == CreateAgentModel(env)
     IN /\ call' = [tool |-> "createAgentModel", args |-> NoArgs, invoked |-> TRUE]
        /\ res' = IF model.threw THEN Threw({})
                  ELSE Returned([kind |-> "model", name |-> model.provider], {})
  /\ UNCHANGED <<env, cwd, repo, runVars>>

NextConfig == CallGetProviderConfig \/ CallCreateAgentModel \/ ResultTaken

SpecConfig == InitConfig /\ [][NextConfig]_vars

Given(v) == v # ""

\* The provider the precedence rule selects, and the model it selects.
Selected(given, fallback, default) ==
  CASE Given(given) -> given
    [] ~Given(given) /\ Given(fallback) -> fallback
    [] OTHER -> default
SelectedProvider == Selected(env.optProvider, env.DEV_AI_PROVIDER, "anthropic")
SelectedModel ==
  Selected(env.optModel, env.DEV_AI_MODEL,
           CASE SelectedProvider = "anthropic" -> "claude-sonnet-4-20250514"
             [] SelectedProvider = "openai" -> "gpt-4-turbo")
RequiredKey ==
  CASE SelectedProvider = "anthropic" -> env.ANTHROPIC_API_KEY
    [] SelectedProvider = "openai" -> env.OPENAI_API_KEY

\* C25: the provider is the --provider option if given, else DEV_AI_PROVIDER,
\* else anthropic; the model is the --model option if given, else
\* DEV_AI_MODEL, else the selected provider's default; the credential
\* required is ANTHROPIC_API_KEY for anthropic and OPENAI_API_KEY for openai;
\* any other provider name is rejected with an error.
C25_SelectionPrecedence ==
  /\ call.tool = "getProviderConfig" =>
       IF SelectedProvider \in {"anthropic", "openai"}
       THEN /\ ~res.threw
            /\ res.out.name = SelectedProvider
            /\ res.out.model = SelectedModel
            /\ res.out.apiKeyEnvVar =
                 (IF SelectedProvider = "anthropic" THEN "ANTHROPIC_API_KEY"
                  ELSE "OPENAI_API_KEY")
       ELSE res.threw
  /\ call.tool = "createAgentModel" =>
       IF SelectedProvider \in {"anthropic", "openai"}
       THEN res.threw <=> ~Given(RequiredKey)
       ELSE res.threw

\* --provider anthropic beats DEV_AI_PROVIDER=openai, and DEV_AI_MODEL is
\* used where --model is not given.
C25_Witness ==
  /\ call.tool = "getProviderConfig"
  /\ env.optProvider = "anthropic" /\ env.DEV_AI_PROVIDER = "openai"
  /\ env.optModel = "" /\ env.DEV_AI_MODEL = "m-env"
  /\ res.out = [kind |-> "config", name |-> "anthropic", model |-> "m-env",
                apiKeyEnvVar |-> "ANTHROPIC_API_KEY"]


ErrorTexts ==
  {"Error: Cannot read files outside the project directory.", "Error: File not found",
   "Error reading file", "Error: Cannot list files outside the project directory.",
   "Error: Directory not found", "Error listing directory"}

\* The call handled last ran its executor and failed: it returned an error
\* text, or threw.
ToolError ==
  /\ call.invoked
  /\ \/ res.threw
     \/ res.out.kind = "text" /\ res.out.msg \in ErrorTexts

C27_WitnessDenied ==
  /\ ToolError
  /\ call.tool = "listFiles"
  /\ res.out = Text("Error: Cannot list files outside the project directory.")

====
